---- MODULE Spec2Model ----
(***************************************************************************)
(* Batch orchestration engine of smart-mail-manager.                       *)
(*                                                                         *)
(*   server-mongo.js     POST /api/batch/create, POST /api/batch/execute,  *)
(*                       withTokenRefresh (the credential guard)           *)
(*   batch-processor.js  BatchProcessor (src/unnamed/part_000)             *)
(*   database-mongo.js   MongoDatabase (batchLogs, users, emails,          *)
(*                       rateLimits collections)                           *)
(*   gemini-enhanced.js  EnhancedGeminiAnalyzer (classification)           *)
(*                                                                         *)
(* An HTTP request handler is a sequence of actions, one per awaited       *)
(* database or remote call: the action applies the effect of the call and  *)
(* then runs the synchronous code that follows it, up to the next await.   *)
(* Handlers of different requests interleave at these points, as they do   *)
(* on the Node.js event loop.                                              *)
(***************************************************************************)
EXTENDS Integers, Sequences, FiniteSets, Bags, TLC

VARIABLES
    batchLogs,    \* batchLogs collection: batchId -> document, or NoJob
    users,        \* users collection: userId -> stored tokens
    session,      \* req.user of each logged-in user (session object)
    oauthCreds,   \* credentials installed on the process-wide oauth2Client
    minted,       \* provider: owner of every access token issued so far
    live,         \* provider: access tokens it still accepts
    mailbox,      \* provider: number of messages in each user's inbox
    emails,       \* emails collection: set of documents
    req,          \* per execute request: the handler's position and locals
    rateLimits,   \* rateLimits collection: bag of documents
    grants,       \* history: bag of every document ever inserted in rateLimits
    now,          \* wall clock, milliseconds (Date.now())
    rl,           \* per caller: position and locals of a checkRateLimit call
    rlCalls,      \* number of checkRateLimit calls begun
    storeFailures,\* number of failed operations on the rateLimits collection
    cls,          \* the classification in progress (analyzeEmail)
    labels,       \* labels collection: set of documents
    gmailLabels,  \* provider: the labels of every mailbox
    lastCreate    \* the last POST /api/batch/create request and its response

vars == <<batchLogs, users, session, oauthCreds, minted, live, mailbox, emails,
          req, rateLimits, grants, now, rl, rlCalls, storeFailures, cls,
          labels, gmailLabels, lastCreate>>

batchVars == <<batchLogs, users, session, oauthCreds, minted, live, mailbox,
               emails, req, labels, gmailLabels, lastCreate>>
labelVars == <<labels, gmailLabels>>
rateVars  == <<rateLimits, grants, now, rl, rlCalls, storeFailures>>

----------------------------------------------------------------------------
(* Bounds of the model *)

MaxBatches  == 1     \* batch jobs created
MaxTokens   == 4     \* access tokens the provider issues
MaxMailbox  == 2     \* messages in a mailbox
MaxRlCalls  == 12    \* checkRateLimit calls
MaxStoreFailures == 1 \* failed operations on the rateLimits collection
MaxTicks    == 3     \* steps of the clock
MaxClassify == 1     \* analyzeEmail calls
MaxConcCalls == 3    \* checkRateLimit calls of the concurrent callers
MaxCore     == 3     \* length of the free part of a suggested label
MaxKeywords == 2     \* keyword lists a subject matches

Users    == {"u1", "u2"}
Reqs     == {1, 2}
Callers  == {1, 2}
BatchIds == 1..MaxBatches
UnknownBatchId == MaxBatches + 1   \* an identifier generateBatchId never returns

NoJob  == [status |-> "none"]
NoTok  == 0

Min(a, b) == IF a < b THEN a ELSE b


----------------------------------------------------------------------------
(* Documents and helpers *)

\* Variant of SetFields: the update replaces the document, and the counters
\* it does not name are lost.
SetFieldsReplace(doc, upd) ==
    [f \in DOMAIN doc |->
        IF f \in DOMAIN upd THEN upd[f]
        ELSE IF f \in {"emailsProcessed", "emailsTotal", "labelsCreated",
                       "labelsUsed"}
             THEN 0 ELSE doc[f]]

\* updateOne({..}, {$set: upd}): the fields of upd overwrite those of doc;
\* fields of upd the model does not keep (startTime, endTime, updatedAt,
\* suggestions) are dropped.
SetFields(doc, upd) ==
    [f \in DOMAIN doc |-> IF f \in DOMAIN upd THEN upd[f] ELSE doc[f]]

Terminal == {"completed", "failed"}

\* The identifiers of the jobs in the batchLogs collection.
Jobs == {b \in BatchIds : batchLogs[b] # NoJob}

\* Variant of maxBatchSizes without the entry of fullProcess.
maxBatchSizesNoFullProcess(operation) ==
    CASE operation = "fetchEmails"   -> 500
      [] operation = "analyzeEmails" -> 200
      [] operation = "assignLabels"  -> 200
      [] OTHER                       -> 0

\* maxBatchSizes of POST /api/batch/create; 0 stands for "no entry".
maxBatchSizes(operation) ==
    CASE operation = "fetchEmails"   -> 500
      [] operation = "analyzeEmails" -> 200
      [] operation = "assignLabels"  -> 200
      [] operation = "fullProcess"   -> 200
      [] OTHER                       -> 0

\* generateBatchId: an identifier no existing job has.
generateBatchId == CHOOSE b \in BatchIds :
    /\ batchLogs[b] = NoJob
    /\ \A c \in BatchIds : c < b => batchLogs[c] # NoJob

\* MongoDatabase.createBatchLog: insertOne({...batchData, startTime, status}).
createBatchLog(batchData) == [batchData EXCEPT !.status = "started"]

\* Variant of updateBatchLog: updateOne with upsert, which inserts a document
\* when none matches.
updateBatchLogUpsert(logs, batchId, updateData) ==
    [logs EXCEPT ![batchId] = SetFields(logs[batchId], updateData)]

\* MongoDatabase.updateBatchLog: updateOne({batchId}, {$set: ...}), no upsert.
updateBatchLog(logs, batchId, updateData) ==
    IF logs[batchId] = NoJob THEN logs
    ELSE [logs EXCEPT ![batchId] = SetFields(logs[batchId], updateData)]

\* BatchProcessor.createBatch
createBatch(userId, operation, batchSize) ==
    createBatchLog([status          |-> "created",
                    userId          |-> userId,
                    operation       |-> operation,
                    batchSize       |-> batchSize,
                    emailsProcessed |-> 0,
                    emailsTotal     |-> 0,
                    labelsCreated   |-> 0,
                    labelsUsed      |-> 0,
                    errors          |-> <<>>])

IdleReq == [pc |-> "idle", user |-> "u1", batchId |-> 1,
            snap |-> [accessToken |-> NoTok, refreshToken |-> "u1"],
            attempt |-> 0, opCalls |-> 0, refreshes |-> 0, refreshed |-> NoTok,
            err |-> "none", callTok |-> NoTok,
            operation |-> "none", batchSize |-> 0, owner |-> "u1",
            pageToken |-> 0, nextPageToken |-> 0, page |-> <<>>,
            totalEmails |-> 0, result |-> [operation |-> "none"],
            wrote |-> "none", resCalls |-> <<>>,
            items |-> <<>>, names |-> <<>>, selected |-> 0,
            successful |-> 0, failed |-> 0, analysis |-> <<>>,
            labelsCreated |-> 0, existingLabels |-> 0, labelId |-> 0,
            modifies |-> 0, merged |-> [operation |-> "none"]]

----------------------------------------------------------------------------
(* POST /api/batch/create *)

NoCreate == [user |-> "u1", operation |-> "none", batchSize |-> 0,
             response |-> "none", batchId |-> 0, jobsBefore |-> 0]

\* batchSize 0 stands for batchSize: 0 and for an options object without
\* batchSize: both are falsy in the guard of the validation.  The response
\* is 400 (validation error) or success with the identifier of the new job.
CreateBatchRoute(u, operation, batchSize) ==
    /\ \E b \in BatchIds : batchLogs[b] = NoJob
    /\ IF batchSize # 0 /\ maxBatchSizes(operation) # 0
          /\ (batchSize > maxBatchSizes(operation) \/ batchSize < 1)
       THEN /\ UNCHANGED batchLogs
            /\ lastCreate' = [user |-> u, operation |-> operation,
                              batchSize |-> batchSize, response |-> "400",
                              batchId |-> 0,
                              jobsBefore |-> Cardinality(Jobs)]
       ELSE /\ batchLogs' = [batchLogs EXCEPT ![generateBatchId] =
                               createBatch(u, operation, batchSize)]
            /\ lastCreate' = [user |-> u, operation |-> operation,
                              batchSize |-> batchSize, response |-> "success",
                              batchId |-> generateBatchId,
                              jobsBefore |-> Cardinality(Jobs)]
    /\ UNCHANGED <<users, session, oauthCreds, minted, live, mailbox, emails,
                   req>>
    /\ UNCHANGED <<rateVars, cls, labelVars>>


----------------------------------------------------------------------------
(* POST /api/batch/execute: withTokenRefresh around executeBatch *)

\* oauth2Client.setCredentials({access_token, refresh_token})
setCredentials(access, refresh) ==
    [access_token |-> access, refresh_token |-> refresh]

\* The operation closure of the route: executeBatch(batchId, {accessToken:
\* user.accessToken, refreshToken: user.refreshToken}) with the user document
\* read at the start of the route.  Runs up to the await of findOne.
StartOperation(q) ==
    [q EXCEPT !.pc = "findOne", !.opCalls = @ + 1, !.err = "none"]

\* The responses the handler writes once withTokenRefresh has answered
\* requiresReauth: withTokenRefresh returns the value of res.status(401).json,
\* the route takes it for the result and calls res.json({success: true, ..}),
\* and the catch of the route calls res.status(500).json when that fails.
ReauthResponses == <<"requiresReauth", "success", "error500">>

\* The handler has returned: its locals are gone, the slot keeps what the
\* request did (calls of the operation, refresh attempts, last status written
\* to the job, last error, responses written).
Finish(q, responses) ==
    [IdleReq EXCEPT !.pc = "done", !.user = q.user, !.batchId = q.batchId,
                    !.attempt = q.attempt, !.opCalls = q.opCalls,
                    !.refreshes = q.refreshes, !.refreshed = q.refreshed,
                    !.err = q.err, !.wrote = q.wrote,
                    !.resCalls = q.resCalls \o responses]

\* getUser, then withTokenRefresh installs req.user's tokens and calls the
\* operation, whose first statement installs the tokens of the user document.
ExecuteRoute(r, u, b) ==
    /\ req[r].pc = "idle"
    /\ \A r2 \in Reqs : r2 < r => req[r2].pc # "idle"
    /\ oauthCreds' = setCredentials(users[u].accessToken, users[u].refreshToken)
    /\ req' = [req EXCEPT ![r] = StartOperation(
                  [IdleReq EXCEPT !.user = u, !.batchId = b,
                                  !.snap = users[u], !.attempt = 1])]
    /\ UNCHANGED <<batchLogs, users, session, minted, live, mailbox, emails>>
    /\ UNCHANGED <<rateVars, cls, labelVars, lastCreate>>

\* executeBatch: findOne({batchId}); absent -> throw 'Batch not found'.
FindOne(r) ==
    LET q == req[r]  job == batchLogs[q.batchId] IN
    /\ q.pc = "findOne"
    /\ req' = [req EXCEPT ![r] =
                 IF job = NoJob
                 THEN [q EXCEPT !.pc = "failWrite", !.err = "notFound"]
                 ELSE [q EXCEPT !.pc = "markRunning",
                                !.operation = job.operation,
                                !.batchSize = job.batchSize,
                                !.owner = job.userId]]
    /\ UNCHANGED <<batchLogs, users, session, oauthCreds, minted, live,
                   mailbox, emails>>
    /\ UNCHANGED <<rateVars, cls, labelVars, lastCreate>>

\* batchFetchEmails: const batchSize = options.batchSize || 100
fetchBatchSize(q) == IF q.batchSize = 0 THEN 100 ELSE q.batchSize

\* executeBatch: updateBatchLog(running), then the switch on the operation.
MarkRunning(r) ==
    LET q == req[r] IN
    /\ q.pc = "markRunning"
    /\ batchLogs' = updateBatchLog(batchLogs, q.batchId, [status |-> "running"])
    /\ req' = [req EXCEPT ![r] =
          CASE q.operation = "fetchEmails" ->
                 [q EXCEPT !.pc = "list", !.wrote = "running",
                           !.pageToken = 0, !.totalEmails = 0,
                           !.callTok = oauthCreds.access_token]
            [] q.operation = "analyzeEmails" ->
                 [q EXCEPT !.pc = "getUnprocessed", !.wrote = "running"]
            [] q.operation = "createLabels" ->
                 [q EXCEPT !.pc = "getProcessed", !.wrote = "running"]
            [] q.operation = "assignLabels" ->
                 [q EXCEPT !.pc = "getAssignable", !.wrote = "running"]
            [] q.operation = "organizeLabels" ->
                 [q EXCEPT !.pc = "organize", !.wrote = "running"]
            [] q.operation = "fullProcess" ->
                 [q EXCEPT !.pc = "list", !.wrote = "running",
                           !.pageToken = 0, !.totalEmails = 0,
                           !.callTok = oauthCreds.access_token]
            [] OTHER ->
                 [q EXCEPT !.pc = "failWrite", !.wrote = "running",
                           !.err = "unknownOperation"]]
    /\ UNCHANGED <<users, session, oauthCreds, minted, live, mailbox, emails>>
    /\ UNCHANGED <<rateVars, cls, labelVars, lastCreate>>


----------------------------------------------------------------------------
(* batchFetchEmails *)

\* gmailApiLimit: Math.min(batchSize, 50)
GmailPageLimit == 50

\* The for-loop over the messages of a page, positioned after one message:
\* the next messages.get is issued with the credentials installed at that
\* moment, or the page is finished and the progress update is issued.
NextMessage(q, rest) ==
    IF rest # <<>>
    THEN [q EXCEPT !.pc = "get", !.page = rest,
                   !.callTok = oauthCreds.access_token]
    ELSE [q EXCEPT !.pc = "progress", !.page = <<>>,
                   !.pageToken = q.nextPageToken]

\* The messages of one page of the listing of a mailbox of size m, from
\* pageToken (0: first page), at most maxResults of them.
PageFirst(pageToken) == IF pageToken = 0 THEN 1 ELSE pageToken
\* Variant of PageLast: the listing never advances (every page is empty and
\* carries a token for the same position).
PageLastStuck(pageToken, maxResults, m) ==
    PageFirst(pageToken) - 1

PageLast(pageToken, maxResults, m) ==
    Min(PageFirst(pageToken) + maxResults - 1, m)
PageMessages(pageToken, maxResults, m) ==
    [i \in 1..(PageLast(pageToken, maxResults, m) - PageFirst(pageToken) + 1)
       |-> PageFirst(pageToken) + i - 1]

\* gmail.users.messages.list returns: a page, an authorization error (the
\* access token sent with the call is not accepted) or another error.  Any
\* error leaves batchFetchEmails and executeBatch through their catch blocks.
ListReturn(r) ==
    LET q == req[r] IN
    /\ q.pc = "list"
    /\ IF q.callTok \notin live
       THEN req' = [req EXCEPT ![r] = [q EXCEPT !.pc = "failWrite",
                                                !.err = "invalid_token"]]
       ELSE \/ req' = [req EXCEPT ![r] = [q EXCEPT !.pc = "failWrite",
                                                   !.err = "providerError"]]
            \/ LET m    == mailbox[minted[q.callTok]]
                   maxR == Min(fetchBatchSize(q), GmailPageLimit)
                   last == PageLast(q.pageToken, maxR, m)
                   q2   == [q EXCEPT !.nextPageToken =
                                        IF last < m THEN last + 1 ELSE 0]
               IN req' = [req EXCEPT ![r] =
                            NextMessage(q2, PageMessages(q.pageToken, maxR, m))]
    /\ UNCHANGED <<batchLogs, users, session, oauthCreds, minted, live,
                   mailbox, emails>>
    /\ UNCHANGED <<rateVars, cls, labelVars, lastCreate>>

\* gmail.users.messages.get returns; a failure is logged and the message
\* skipped, a success leads to saveEmail.  The call fails when the access
\* token sent with it is not accepted, and, if mayFail, for any other reason.
GetReturn(r, mayFail) ==
    LET q == req[r] IN
    /\ q.pc = "get"
    /\ \/ /\ q.callTok \in live
          /\ req' = [req EXCEPT ![r] = [q EXCEPT !.pc = "save"]]
       \/ /\ mayFail \/ q.callTok \notin live
          /\ req' = [req EXCEPT ![r] = NextMessage(q, Tail(q.page))]
    /\ UNCHANGED <<batchLogs, users, session, oauthCreds, minted, live,
                   mailbox, emails>>
    /\ UNCHANGED <<rateVars, cls, labelVars, lastCreate>>

\* MongoDatabase.saveEmail: replaceOne({gmailId, userId}, emailData, upsert)
saveEmail(coll, emailData) ==
    {e \in coll : ~(e.gmailId = emailData.gmailId /\ e.userId = emailData.userId)}
        \cup {emailData}

\* saveEmail(emailData) with processed and synced false, then totalEmails++.
SaveEmail(r) ==
    LET q == req[r] IN
    /\ q.pc = "save"
    /\ emails' = saveEmail(emails, [gmailId |-> Head(q.page), userId |-> q.owner,
                                    processed |-> FALSE, synced |-> FALSE,
                                    suggestedLabel |-> <<>>])
    /\ req' = [req EXCEPT ![r] =
                 NextMessage([q EXCEPT !.totalEmails = @ + 1], Tail(q.page))]
    /\ UNCHANGED <<batchLogs, users, session, oauthCreds, minted, live,
                   mailbox>>
    /\ UNCHANGED <<rateVars, cls, labelVars, lastCreate>>

\* updateBatchLog({emailsProcessed: totalEmails}) after each page, then the
\* loop condition: while (pageToken && totalEmails < batchSize).
Progress(r) ==
    LET q == req[r] IN
    /\ q.pc = "progress"
    /\ batchLogs' = updateBatchLog(batchLogs, q.batchId,
                                   [emailsProcessed |-> q.totalEmails])
    /\ req' = [req EXCEPT ![r] =
                 IF q.pageToken # 0 /\ q.totalEmails < fetchBatchSize(q)
                 THEN [q EXCEPT !.pc = "list",
                                !.callTok = oauthCreds.access_token]
                 ELSE [q EXCEPT !.pc = "complete",
                                !.result = [emailsProcessed |-> q.totalEmails,
                                            emailsTotal     |-> q.totalEmails,
                                            operation       |-> "fetchEmails"]]]
    /\ UNCHANGED <<users, session, oauthCreds, minted, live, mailbox, emails>>
    /\ UNCHANGED <<rateVars, cls, labelVars, lastCreate>>

\* batchOrganizeLabels: suggestLabelOrganization catches every error of its
\* own and returns suggestions; nothing is written.
Organize(r) ==
    LET q == req[r] IN
    /\ q.pc = "organize"
    /\ req' = [req EXCEPT ![r] = [q EXCEPT !.pc = "complete",
                                 !.result = [operation |-> "organizeLabels"]]]
    /\ UNCHANGED <<batchLogs, users, session, oauthCreds, minted, live,
                   mailbox, emails>>
    /\ UNCHANGED <<rateVars, cls, labelVars, lastCreate>>


----------------------------------------------------------------------------
(* executeBatch: completion and failure; withTokenRefresh: refresh, retry *)

\* A step of fullBatchProcess has returned its result to fullBatchProcess,
\* which has not yet returned to executeBatch.
StepReturned(q) ==
    q.operation = "fullProcess" /\ q.result.operation # "fullProcess"

\* updateBatchLog({status: 'completed', endTime, ...result}); executeBatch
\* returns result, withTokenRefresh returns it, the route answers success.
Complete(r) ==
    LET q == req[r] IN
    /\ q.pc = "complete"
    /\ ~StepReturned(q)
    /\ batchLogs' = updateBatchLog(batchLogs, q.batchId,
                        [f \in DOMAIN q.result \cup {"status"} |->
                            IF f = "status" THEN "completed" ELSE q.result[f]])
    /\ req' = [req EXCEPT ![r] =
                 Finish([q EXCEPT !.wrote = "completed"], <<"success">>)]
    /\ UNCHANGED <<users, session, oauthCreds, minted, live, mailbox, emails>>
    /\ UNCHANGED <<rateVars, cls, labelVars, lastCreate>>

\* Variant of IsTokenError: every error counts as a token error.
IsTokenErrorAny(err) == TRUE

\* withTokenRefresh: error.code === 401 || error.message.includes('invalid_token')
IsTokenError(err) == err = "invalid_token"

\* Variant of withTokenRefreshCatch: a token error of the retry starts another
\* refresh (a retry loop).
withTokenRefreshCatchLoop(q) ==
    CASE IsTokenError(q.err) ->
           [q EXCEPT !.pc = "refresh", !.callTok = NoTok]
      [] OTHER ->
           Finish(q, <<"error500">>)

\* Variant of withTokenRefreshCatch: an error of the retry is rethrown to the
\* catch of the route instead of being answered with requiresReauth.
withTokenRefreshCatchRethrow(q) ==
    CASE q.attempt = 1 /\ IsTokenError(q.err) ->
           [q EXCEPT !.pc = "refresh", !.callTok = NoTok]
      [] OTHER ->
           Finish(q, <<"error500">>)

\* withTokenRefresh receives an error thrown by the operation.  On the first
\* call a token error starts the refresh and any other error is rethrown to
\* the catch of the route (500); the retry runs inside the try block of the
\* refresh, whose catch answers requiresReauth for every error.
withTokenRefreshCatch(q) ==
    CASE q.attempt = 1 /\ IsTokenError(q.err) ->
           [q EXCEPT !.pc = "refresh", !.callTok = NoTok]
      [] q.attempt = 1 /\ ~IsTokenError(q.err) ->
           Finish(q, <<"error500">>)
      [] OTHER ->
           Finish(q, ReauthResponses)

\* The catch of executeBatch: updateBatchLog({status: 'failed', endTime,
\* errors: [error.message]}), then throw.
FailWrite(r) ==
    LET q == req[r] IN
    /\ q.pc = "failWrite"
    /\ batchLogs' = updateBatchLog(batchLogs, q.batchId,
                        [status |-> "failed", errors |-> <<q.err>>])
    /\ req' = [req EXCEPT ![r] =
                 withTokenRefreshCatch([q EXCEPT !.wrote = "failed"])]
    /\ UNCHANGED <<users, session, oauthCreds, minted, live, mailbox, emails>>
    /\ UNCHANGED <<rateVars, cls, labelVars, lastCreate>>

\* oauth2Client.refreshAccessToken() returns: the provider issues a new access
\* token for the owner of the refresh token on the client, or the refresh
\* fails and withTokenRefresh answers requiresReauth.
Refresh(r) ==
    LET q == req[r] IN
    /\ q.pc = "refresh"
    /\ \/ /\ Len(minted) < MaxTokens
          /\ minted' = Append(minted, oauthCreds.refresh_token)
          /\ live' = live \cup {Len(minted) + 1}
          /\ req' = [req EXCEPT ![r] = [q EXCEPT !.pc = "saveTokens",
                                       !.refreshes = @ + 1,
                                       !.refreshed = Len(minted) + 1]]
       \/ /\ req' = [req EXCEPT ![r] =
                       Finish([q EXCEPT !.refreshes = @ + 1], ReauthResponses)]
          /\ UNCHANGED <<minted, live>>
    /\ UNCHANGED <<batchLogs, users, session, oauthCreds, mailbox, emails>>
    /\ UNCHANGED <<rateVars, cls, labelVars, lastCreate>>

\* MongoDatabase.updateUserTokens: updateOne({userId}, {$set: tokens})
updateUserTokens(coll, userId, tokens) ==
    [coll EXCEPT ![userId] = tokens]

\* updateUserTokens, req.user.accessToken = new token, setCredentials(new
\* tokens), then the operation is called again: it is the same closure, so
\* executeBatch installs the tokens of the user document read at the start.
SaveTokens(r) ==
    LET q == req[r]
        tokens == [accessToken |-> q.refreshed,
                   refreshToken |-> session[q.user].refreshToken] IN
    /\ q.pc = "saveTokens"
    /\ q.operation # "listLabels"
    /\ users' = updateUserTokens(users, q.user, tokens)
    /\ session' = [session EXCEPT ![q.user].accessToken = q.refreshed]
    /\ oauthCreds' = setCredentials(q.snap.accessToken, q.snap.refreshToken)
    /\ req' = [req EXCEPT ![r] = StartOperation([q EXCEPT !.attempt = 2])]
    /\ UNCHANGED <<batchLogs, minted, live, mailbox, emails>>
    /\ UNCHANGED <<rateVars, cls, labelVars, lastCreate>>

\* The provider stops accepting an access token (expiry, revocation).
ExpireToken(t) ==
    /\ t \in live
    /\ live' = live \ {t}
    /\ UNCHANGED <<batchLogs, users, session, oauthCreds, minted, mailbox,
                   emails, req>>
    /\ UNCHANGED <<rateVars, cls, labelVars, lastCreate>>

----------------------------------------------------------------------------
(* EnhancedGeminiAnalyzer: validateAnalysis and fallbackAnalysis             *)
(*                                                                         *)
(* A string is a sequence of characters.  The subject and the snippet of   *)
(* an email are given by the keyword lists of fallbackAnalysis they        *)
(* contain a word of.  The fields purpose and summary of an analysis,      *)
(* which no decision depends on, are left out.                             *)

VALID_CATEGORIES ==
    {"Finance/Investments", "Finance/Banking", "Finance/E-commerce",
     "Finance/Billing", "Finance/General", "Work", "Shopping", "Personal",
     "Promotions", "Other"}

Sentiments == {"positive", "negative", "neutral"}

MaxLabelLen == 30    \* .substring(0, 30)

Letters == {"a", "b", "Z", "G", "e", "n", "r", "l", "I", "v", "s", "t", "m",
            "B", "k", "i", "g", "W", "o", "P", "S", "h", "p"}
Digits  == {"7"}
\* \s : space, tab and the other white space characters
WhiteSpace == {" ", "\t"}
\* [a-zA-Z0-9\s\/]
KeptChars == Letters \cup Digits \cup WhiteSpace \cup {"/"}

General     == <<"G", "e", "n", "e", "r", "a", "l">>
Investments == <<"I", "n", "v", "e", "s", "t", "m", "e", "n", "t", "s">>
Banking     == <<"B", "a", "n", "k", "i", "n", "g">>
Work        == <<"W", "o", "r", "k">>
Personal    == <<"P", "e", "r", "s", "o", "n", "a", "l">>
Shopping    == <<"S", "h", "o", "p", "p", "i", "n", "g">>

\* str.replace(/[^a-zA-Z0-9\s\/]/g, '')
RECURSIVE RemoveSpecial(_)
RemoveSpecial(str) ==
    IF str = <<>> THEN <<>>
    ELSE IF Head(str) \in KeptChars
         THEN <<Head(str)>> \o RemoveSpecial(Tail(str))
         ELSE RemoveSpecial(Tail(str))

\* str.trim()
RECURSIVE TrimStart(_)
TrimStart(str) ==
    IF str # <<>> /\ Head(str) \in WhiteSpace THEN TrimStart(Tail(str)) ELSE str

RECURSIVE TrimEnd(_)
TrimEnd(str) ==
    IF str # <<>> /\ str[Len(str)] \in WhiteSpace
    THEN TrimEnd(SubSeq(str, 1, Len(str) - 1)) ELSE str

Trim(str) == TrimEnd(TrimStart(str))

\* str.substring(0, n)
Substring0(str, n) == SubSeq(str, 1, Min(n, Len(str)))

\* A field of the object parsed from the response of the AI backend is a
\* string, absent (undefined, null, or another falsy value), or a truthy
\* value that is not a string (a number, an array, an object).
StrVal(str) == [t |-> "string", v |-> str]
Undefined   == [t |-> "undefined", v |-> <<>>]
NonString   == [t |-> "other", v |-> <<>>]

\* analysis.suggestedLabel || 'General'
LabelOrDefault(field) ==
    IF field.t = "undefined" \/ (field.t = "string" /\ field.v = <<>>)
    THEN StrVal(General) ELSE field

\* validateAnalysis throws a TypeError when suggestedLabel has no replace
\* method.
validateThrows(analysis) == LabelOrDefault(analysis.suggestedLabel).t # "string"

\* .replace(/[^a-zA-Z0-9\s\/]/g, '').trim().substring(0, 30)
CleanLabel(str) == Substring0(Trim(RemoveSpecial(str)), MaxLabelLen)

\* EnhancedGeminiAnalyzer.validateAnalysis
validateAnalysis(analysis) ==
    LET cleaned == CleanLabel(LabelOrDefault(analysis.suggestedLabel).v) IN
    [category  |-> IF analysis.category \in VALID_CATEGORIES
                   THEN analysis.category ELSE "Other",
     sentiment |-> IF analysis.sentiment \in Sentiments
                   THEN analysis.sentiment ELSE "neutral",
     suggestedLabel |-> IF cleaned = <<>> THEN General ELSE cleaned]

\* EnhancedGeminiAnalyzer.fallbackAnalysis; subject and snippet are the sets
\* of keyword lists the lower-cased strings contain a word of.
fallbackAnalysis(subject, snippet) ==
    LET cat ==
          CASE "financial" \in subject \cup snippet ->
                 IF "investment" \in subject
                 THEN <<"Finance/Investments", Investments>>
                 ELSE <<"Finance/Banking", Banking>>
            [] "financial" \notin subject \cup snippet /\ "work" \in subject ->
                 <<"Work", Work>>
            [] "financial" \notin subject \cup snippet /\ "work" \notin subject
                 /\ "personal" \in subject ->
                 <<"Personal", Personal>>
            [] "financial" \notin subject \cup snippet /\ "work" \notin subject
                 /\ "personal" \notin subject /\ "shopping" \in subject ->
                 <<"Shopping", Shopping>>
            [] OTHER -> <<"Other", General>>
    IN [category  |-> cat[1],
        sentiment |-> IF "positive" \in subject THEN "positive"
                      ELSE IF "negative" \in subject THEN "negative"
                      ELSE "neutral",
        suggestedLabel |-> cat[2]]

NoAnalysis == [category |-> "none", sentiment |-> "none", suggestedLabel |-> <<>>]

\* The classification in progress: the configuration flag, the position of
\* analyzeEmail, its arguments, and what it has done so far.
IdleCls(flag) ==
    [USE_GEMINI |-> flag, pc |-> "idle", caller |-> 1, n |-> 0,
     subject |-> {}, snippet |-> {},
     rateChecked |-> FALSE, canProceed |-> FALSE, geminiCalled |-> FALSE,
     path |-> "none", out |-> NoAnalysis]

\* analyzeEmail after checkRateLimit has returned to it: on false the result
\* of fallbackAnalysis is returned, on true callGeminiAPI is issued.
AfterRateLimit(c, p, canProceed) ==
    IF c.pc = "rate" /\ c.caller = p
    THEN IF canProceed
         THEN [c EXCEPT !.pc = "gemini", !.canProceed = TRUE,
                        !.geminiCalled = TRUE]
         ELSE [c EXCEPT !.pc = "done", !.path = "rateLimited",
                        !.out = fallbackAnalysis(c.subject, c.snippet)]
    ELSE c

----------------------------------------------------------------------------
(* MongoDatabase.checkRateLimit: the rate limiter of the classification API *)

RateLimit == 10      \* if (count >= 10)
WindowMs  == 60000   \* windowStart = Date.now() - 60000
TtlMs     == 60000   \* expiresAt = Date.now() + 60000

\* key = `${userId}_${operation}`
RateKey(userId, operation) == <<userId, operation>>

IdleCall == [pc |-> "idle", key |-> RateKey("u1", "gemini"), windowStart |-> 0,
             at |-> 0, before |-> 0, result |-> "none", failed |-> FALSE]

\* The sub-bag of the documents of bag B that satisfy Test.
BagFilter(B, Test(_)) == [d \in {e \in BagToSet(B) : Test(e)} |-> B[d]]

\* countDocuments({key, timestamp: {$gte: windowStart}})
countDocuments(coll, key, windowStart) ==
    LET Match(d) == d.key = key /\ d.timestamp >= windowStart
    IN BagCardinality(BagFilter(coll, Match))

\* The document of the current request.
RateDoc(key, t) == [key |-> key, timestamp |-> t, expiresAt |-> t + TtlMs]

\* Variant of the ceiling test: if (count > 10).
OverLimitOffByOne(count) == count > RateLimit

\* if (count >= 10) return false
OverLimit(count) == count >= RateLimit

\* checkRateLimit is called: key and windowStart are computed and
\* countDocuments is issued.
checkRateLimit(p, userId, operation) ==
    /\ rl[p].pc \in {"idle", "done"}
    /\ rlCalls < MaxRlCalls
    /\ rlCalls' = rlCalls + 1
    /\ rl' = [rl EXCEPT ![p] = [IdleCall EXCEPT
                 !.pc = "count", !.key = RateKey(userId, operation),
                 !.windowStart = now - WindowMs,
                 !.before = BagCardinality(grants)]]
    /\ UNCHANGED <<rateLimits, grants, now, storeFailures>>

\* A call of checkRateLimit from outside analyzeEmail.
CheckRateLimit(p, userId, operation) ==
    /\ cls.pc # "rate"
    /\ checkRateLimit(p, userId, operation)
    /\ UNCHANGED <<batchVars, cls>>

\* Variant of CountDocuments: a failure of countDocuments makes the call
\* return false.
CountDocumentsFailClosed(p) ==
    LET c == rl[p] IN
    /\ c.pc = "count"
    /\ \/ /\ storeFailures < MaxStoreFailures
          /\ storeFailures' = storeFailures + 1
          /\ rl' = [rl EXCEPT ![p] = [c EXCEPT !.pc = "done", !.at = now,
                                     !.result = "false", !.failed = TRUE]]
          /\ cls' = AfterRateLimit(cls, p, FALSE)
       \/ /\ UNCHANGED storeFailures
          /\ IF OverLimit(countDocuments(rateLimits, c.key, c.windowStart))
             THEN /\ rl' = [rl EXCEPT ![p] = [c EXCEPT !.pc = "done",
                                             !.at = now, !.result = "false"]]
                  /\ cls' = AfterRateLimit(cls, p, FALSE)
             ELSE /\ rl' = [rl EXCEPT ![p] = [c EXCEPT !.pc = "insert",
                                             !.at = now]]
                  /\ UNCHANGED cls
    /\ UNCHANGED <<rateLimits, grants, now, rlCalls>>
    /\ UNCHANGED batchVars

\* countDocuments returns (or fails: the catch returns true).  At or over the
\* ceiling the call returns false; otherwise the document of this request is
\* built and insertOne is issued.
CountDocuments(p) ==
    LET c == rl[p] IN
    /\ c.pc = "count"
    /\ \/ /\ storeFailures < MaxStoreFailures
          /\ storeFailures' = storeFailures + 1
          /\ rl' = [rl EXCEPT ![p] = [c EXCEPT !.pc = "done", !.at = now,
                                     !.result = "true", !.failed = TRUE]]
          /\ cls' = AfterRateLimit(cls, p, TRUE)
       \/ /\ UNCHANGED storeFailures
          /\ IF OverLimit(countDocuments(rateLimits, c.key, c.windowStart))
             THEN /\ rl' = [rl EXCEPT ![p] = [c EXCEPT !.pc = "done",
                                             !.at = now, !.result = "false"]]
                  /\ cls' = AfterRateLimit(cls, p, FALSE)
             ELSE /\ rl' = [rl EXCEPT ![p] = [c EXCEPT !.pc = "insert",
                                             !.at = now]]
                  /\ UNCHANGED cls
    /\ UNCHANGED <<rateLimits, grants, now, rlCalls>>
    /\ UNCHANGED batchVars

\* insertOne returns (or fails: the catch returns true); the call returns true.
InsertOne(p) ==
    LET c == rl[p] IN
    /\ c.pc = "insert"
    /\ \/ /\ storeFailures < MaxStoreFailures
          /\ storeFailures' = storeFailures + 1
          /\ rl' = [rl EXCEPT ![p] = [c EXCEPT !.pc = "done",
                                     !.result = "true", !.failed = TRUE]]
          /\ UNCHANGED <<rateLimits, grants>>
       \/ /\ UNCHANGED storeFailures
          /\ rateLimits' = rateLimits (+) SetToBag({RateDoc(c.key, c.at)})
          /\ grants' = grants (+) SetToBag({RateDoc(c.key, c.at)})
          /\ rl' = [rl EXCEPT ![p] = [c EXCEPT !.pc = "done",
                                     !.result = "true"]]
    /\ cls' = AfterRateLimit(cls, p, TRUE)
    /\ UNCHANGED <<now, rlCalls>>
    /\ UNCHANGED batchVars

\* Time passes, half a window at a time.
TickMs == WindowMs \div 2

Tick ==
    /\ now + TickMs <= MaxTicks * TickMs
    /\ now' = now + TickMs
    /\ UNCHANGED <<rateLimits, grants, rl, rlCalls, storeFailures>>
    /\ UNCHANGED <<batchVars, cls>>

\* The TTL index on expiresAt (expireAfterSeconds: 0): the store deletes the
\* documents whose expiresAt has passed.
TtlExpire ==
    LET Keep(d) == d.expiresAt > now IN
    /\ \E d \in BagToSet(rateLimits) : ~Keep(d)
    /\ rateLimits' = BagFilter(rateLimits, Keep)
    /\ UNCHANGED <<grants, now, rl, rlCalls, storeFailures>>
    /\ UNCHANGED <<batchVars, cls>>

----------------------------------------------------------------------------
(* EnhancedGeminiAnalyzer.analyzeEmail *)

\* analyzeEmail is called: inside its try block it first awaits
\* checkRateLimit(userId, 'gemini').  USE_GEMINI is not consulted.
AnalyzeEmail(p, subject, snippet, userId) ==
    /\ cls.pc \in {"idle", "done"}
    /\ cls.n < MaxClassify
    /\ checkRateLimit(p, userId, "gemini")
    /\ cls' = [IdleCls(cls.USE_GEMINI) EXCEPT
                 !.pc = "rate", !.caller = p, !.n = cls.n + 1,
                 !.subject = subject, !.snippet = snippet,
                 !.rateChecked = TRUE]
    /\ UNCHANGED batchVars

\* Variant of GeminiReturn: a rejection of callGeminiAPI is not replaced by
\* the result of fallbackAnalysis.
GeminiReturnNoFallback(response) ==
    /\ cls.pc = "gemini"
    /\ cls' = IF response.kind = "error" \/ validateThrows(response.analysis)
              THEN [cls EXCEPT !.pc = "done", !.path = "fallback"]
              ELSE [cls EXCEPT !.pc = "done", !.path = "gemini",
                        !.out = validateAnalysis(response.analysis)]
    /\ UNCHANGED <<batchVars, rateVars>>

\* callGeminiAPI settles: it resolves with the object parsed from the text of
\* the response, or rejects (transport error, timeout, response without
\* candidates, text without JSON, JSON that does not parse).  The object is
\* validated; a rejection or an exception of validateAnalysis is caught and
\* fallbackAnalysis is returned.
GeminiReturn(response) ==
    /\ cls.pc = "gemini"
    /\ cls' = IF response.kind = "error" \/ validateThrows(response.analysis)
              THEN [cls EXCEPT !.pc = "done", !.path = "fallback",
                        !.out = fallbackAnalysis(cls.subject, cls.snippet)]
              ELSE [cls EXCEPT !.pc = "done", !.path = "gemini",
                        !.out = validateAnalysis(response.analysis)]
    /\ UNCHANGED <<batchVars, rateVars>>

----------------------------------------------------------------------------
(* batchAnalyzeEmails                                                      *)
(*                                                                         *)
(* A message record keeps gmailId, userId, processed, synced and the       *)
(* suggestedLabel of its analysis (the empty string: no analysis).         *)
(* Messages are numbered in the order of the sort of getEmails.  One       *)
(* analyzeEmail call is in progress at a time.                             *)

AnalyzeDefaultLimit == 100   \* options.limit || 100
GetEmailsDefaultLimit == 50  \* .limit(options.limit || 50)

\* The documents of a set in the order of the sort.
RECURSIVE SortedDocs(_)
SortedDocs(S) ==
    IF S = {} THEN <<>>
    ELSE LET d == CHOOSE x \in S : \A y \in S : x.gmailId <= y.gmailId
         IN <<d>> \o SortedDocs(S \ {d})

\* MongoDatabase.getEmails(userId, {processed, limit}); limit 0 stands for
\* options without limit.
getEmails(coll, userId, processed, limit) ==
    LET found == SortedDocs({e \in coll : e.userId = userId
                                         /\ e.processed = processed})
        n     == IF limit = 0 THEN GetEmailsDefaultLimit ELSE limit
    IN SubSeq(found, 1, Min(n, Len(found)))

\* The subject and the snippet of the messages of a mailbox, by the keyword
\* lists of fallbackAnalysis they match.
MessageSubject(gmailId) ==
    CASE gmailId = 1 -> {"work"}
      [] gmailId = 2 -> {"financial"}
      [] OTHER       -> {}
MessageSnippet(gmailId) == {}

\* The result of batchAnalyzeEmails.
AnalyzeResult(q) ==
    [emailsProcessed |-> q.successful,
     emailsTotal     |-> q.selected,
     operation       |-> "analyzeEmails",
     errors          |-> IF q.failed > 0 THEN <<"emails failed analysis">>
                         ELSE <<>>]

\* The loop of EnhancedGeminiAnalyzer.batchAnalyzeEmails after one email.
NextAnalysis(q, rest) ==
    IF rest # <<>>
    THEN [q EXCEPT !.pc = "classify", !.items = rest]
    ELSE [q EXCEPT !.pc = "complete", !.items = <<>>,
                   !.result = AnalyzeResult(q)]

\* batchAnalyzeEmails: const limit = options.limit || 100; a job created by
\* the route has no options.limit, fullBatchProcess passes limit: batchSize
\* with batchSize = options.batchSize || 100.
analyzeLimit(q) ==
    IF q.operation = "fullProcess" THEN fetchBatchSize(q)
    ELSE AnalyzeDefaultLimit

\* getEmails(userId, {processed: false, limit}) returns.
GetUnprocessed(r) ==
    LET q   == req[r]
        sel == getEmails(emails, q.owner, FALSE, analyzeLimit(q)) IN
    /\ q.pc = "getUnprocessed"
    /\ req' = [req EXCEPT ![r] =
          IF sel = <<>>
          THEN [q EXCEPT !.pc = "complete",
                         !.result = [emailsProcessed |-> 0, emailsTotal |-> 0,
                                     operation |-> "analyzeEmails"]]
          ELSE [q EXCEPT !.pc = "classify", !.items = sel,
                         !.selected = Len(sel)]]
    /\ UNCHANGED <<batchLogs, users, session, oauthCreds, minted, live,
                   mailbox, emails>>
    /\ UNCHANGED <<rateVars, cls, labelVars, lastCreate>>

\* analyzeEmail(email.subject, email.from, email.snippet, userId) is called
\* for the next email.
BatchAnalyzeCall(r) ==
    LET q == req[r] IN
    /\ q.pc = "classify"
    /\ cls.pc = "idle"
    /\ AnalyzeEmail(r, MessageSubject(Head(q.items).gmailId),
                    MessageSnippet(Head(q.items).gmailId), q.owner)

\* analyzeEmail returns: results.push({success: true}), then
\* updateEmailAnalysis is issued.
ClassifyReturn(r) ==
    LET q == req[r] IN
    /\ q.pc = "classify"
    /\ cls.pc = "done" /\ cls.caller = r
    /\ req' = [req EXCEPT ![r] = [q EXCEPT !.pc = "updateAnalysis",
                                 !.analysis = cls.out.suggestedLabel,
                                 !.successful = @ + 1]]
    /\ cls' = IdleCls(cls.USE_GEMINI)
    /\ UNCHANGED <<batchLogs, users, session, oauthCreds, minted, live,
                   mailbox, emails>>
    /\ UNCHANGED <<rateVars, labelVars, lastCreate>>

\* MongoDatabase.updateEmailAnalysis: updateOne({gmailId}, {$set: {analysis,
\* processed: true}}) applied to the document d it matches.
updateEmailAnalysis(coll, d, analysis) ==
    (coll \ {d}) \cup {[d EXCEPT !.processed = TRUE,
                                 !.suggestedLabel = analysis]}

\* updateEmailAnalysis returns, or throws if mayFail (the catch of the loop
\* pushes {success: false}); then the next email.
UpdateAnalysis(r, mayFail) ==
    LET q       == req[r]
        matches == {e \in emails : e.gmailId = Head(q.items).gmailId} IN
    /\ q.pc = "updateAnalysis"
    /\ \/ /\ matches = {}
          /\ UNCHANGED emails
          /\ req' = [req EXCEPT ![r] = NextAnalysis(q, Tail(q.items))]
       \/ /\ \E d \in matches :
                emails' = updateEmailAnalysis(emails, d, q.analysis)
          /\ req' = [req EXCEPT ![r] = NextAnalysis(q, Tail(q.items))]
       \/ /\ mayFail
          /\ UNCHANGED emails
          /\ req' = [req EXCEPT ![r] =
                       NextAnalysis([q EXCEPT !.failed = @ + 1],
                                    Tail(q.items))]
    /\ UNCHANGED <<batchLogs, users, session, oauthCreds, minted, live,
                   mailbox>>
    /\ UNCHANGED <<rateVars, cls, labelVars, lastCreate>>

----------------------------------------------------------------------------
(* batchCreateLabels *)

\* The Set of the suggested labels of a list of message records, in the
\* order of insertion: after the names of seen, the label of each record
\* that no earlier record and no name of seen carries.
UniqueLabels(docs, seen) ==
    LET firsts == {i \in 1..Len(docs) :
                     /\ docs[i].suggestedLabel # <<>>
                     /\ \A j \in 1..Len(seen) : seen[j] # docs[i].suggestedLabel
                     /\ \A j \in 1..(i - 1) :
                           docs[j].suggestedLabel # docs[i].suggestedLabel}
    IN seen \o [k \in 1..Cardinality(firsts) |->
                  docs[CHOOSE i \in firsts :
                          Cardinality({j \in firsts : j < i}) = k - 1].suggestedLabel]

\* MongoDatabase.getLabelByName: findOne({userId, name})
getLabelByName(coll, userId, name) ==
    {l \in coll : l.userId = userId /\ l.name = name}

\* MongoDatabase.saveLabel: replaceOne({userId, name}, labelData, upsert)
saveLabel(coll, labelData) ==
    {l \in coll : ~(l.userId = labelData.userId /\ l.name = labelData.name)}
        \cup {labelData}

\* Variant of LabelConflict: the provider accepts a second label of the same
\* name.
LabelConflictNever(owner, name) == FALSE

\* gmail.users.labels.create answers with a conflict error when the mailbox
\* holds a label of that name.
LabelConflict(owner, name) ==
    \E g \in gmailLabels : g.owner = owner /\ g.name = name

\* The identifier the provider gives to a new label.
NewLabelId == Cardinality(gmailLabels) + 1

\* The result of batchCreateLabels.
CreateLabelsResult(q) ==
    [labelsCreated |-> q.labelsCreated,
     labelsUsed    |-> q.existingLabels + q.labelsCreated,
     operation     |-> "createLabels"]

\* The loop over uniqueLabels, positioned at the next label name.
NextLabel(q, rest) ==
    IF rest # <<>>
    THEN [q EXCEPT !.pc = "getLabel", !.names = rest]
    ELSE [q EXCEPT !.pc = "complete", !.names = <<>>,
                   !.result = CreateLabelsResult(q)]

\* getEmails(userId, {processed: true}) returns; the label names are
\* collected.
GetProcessed(r) ==
    LET q     == req[r]
        names == UniqueLabels(getEmails(emails, q.owner, TRUE, 0), <<>>) IN
    /\ q.pc = "getProcessed"
    /\ req' = [req EXCEPT ![r] =
                 NextLabel([q EXCEPT !.selected = Len(names)], names)]
    /\ UNCHANGED <<batchLogs, users, session, oauthCreds, minted, live,
                   mailbox, emails>>
    /\ UNCHANGED <<rateVars, cls, labelVars, lastCreate>>

\* getLabelByName returns: an existing label is counted, for a missing one
\* labels.create is issued with the credentials installed at that moment.
GetLabelByName(r) ==
    LET q == req[r] IN
    /\ q.pc = "getLabel"
    /\ req' = [req EXCEPT ![r] =
          IF getLabelByName(labels, q.owner, Head(q.names)) # {}
          THEN NextLabel([q EXCEPT !.existingLabels = @ + 1], Tail(q.names))
          ELSE [q EXCEPT !.pc = "createLabel",
                         !.callTok = oauthCreds.access_token]]
    /\ UNCHANGED <<batchLogs, users, session, oauthCreds, minted, live,
                   mailbox, emails>>
    /\ UNCHANGED <<rateVars, cls, labelVars, lastCreate>>

\* gmail.users.labels.create returns.  An error (access token not accepted,
\* label name conflict, or any other if mayFail) is logged by the catch of
\* the loop and the label is skipped; on success saveLabel is issued.
CreateLabelReturn(r, mayFail) ==
    LET q == req[r] IN
    /\ q.pc = "createLabel"
    /\ \/ /\ \/ mayFail
             \/ q.callTok \notin live
             \/ LabelConflict(minted[q.callTok], Head(q.names))
          /\ req' = [req EXCEPT ![r] = NextLabel(q, Tail(q.names))]
          /\ UNCHANGED gmailLabels
       \/ /\ q.callTok \in live
          /\ ~LabelConflict(minted[q.callTok], Head(q.names))
          /\ gmailLabels' = gmailLabels \cup
                {[owner |-> minted[q.callTok], name |-> Head(q.names),
                  id |-> NewLabelId]}
          /\ req' = [req EXCEPT ![r] = [q EXCEPT !.pc = "saveLabel",
                                                 !.labelId = NewLabelId]]
    /\ UNCHANGED <<batchLogs, users, session, oauthCreds, minted, live,
                   mailbox, emails, labels>>
    /\ UNCHANGED <<rateVars, cls, lastCreate>>

\* saveLabel returns and labelsCreated is incremented, or it throws if
\* mayFail and the catch of the loop logs the error.
SaveLabel(r, mayFail) ==
    LET q == req[r] IN
    /\ q.pc = "saveLabel"
    /\ \/ /\ labels' = saveLabel(labels, [userId |-> q.owner,
                                          name |-> Head(q.names),
                                          gmailLabelId |-> q.labelId])
          /\ req' = [req EXCEPT ![r] =
                       NextLabel([q EXCEPT !.labelsCreated = @ + 1],
                                 Tail(q.names))]
       \/ /\ mayFail
          /\ UNCHANGED labels
          /\ req' = [req EXCEPT ![r] = NextLabel(q, Tail(q.names))]
    /\ UNCHANGED <<batchLogs, users, session, oauthCreds, minted, live,
                   mailbox, emails, gmailLabels>>
    /\ UNCHANGED <<rateVars, cls, lastCreate>>

----------------------------------------------------------------------------
(* GET /api/labels: the labels of the mailbox are listed and saved *)

\* The labels of type user of the mailbox of an owner, as the provider lists
\* them (by identifier).
RECURSIVE ListedLabels(_)
ListedLabels(S) ==
    IF S = {} THEN <<>>
    ELSE LET g == CHOOSE x \in S : \A y \in S : x.id <= y.id
         IN <<g>> \o ListedLabels(S \ {g})

\* withTokenRefresh installs the tokens of req.user and calls the operation,
\* which issues gmail.users.labels.list.
LabelsRoute(r, u) ==
    /\ req[r].pc = "idle"
    /\ \A r2 \in Reqs : r2 < r => req[r2].pc # "idle"
    /\ oauthCreds' = setCredentials(session[u].accessToken,
                                    session[u].refreshToken)
    /\ req' = [req EXCEPT ![r] =
                 [IdleReq EXCEPT !.pc = "listLabels", !.user = u, !.owner = u,
                                 !.operation = "listLabels", !.attempt = 1,
                                 !.opCalls = 1,
                                 !.callTok = session[u].accessToken]]
    /\ UNCHANGED <<batchLogs, users, session, minted, live, mailbox, emails>>
    /\ UNCHANGED <<rateVars, cls, labelVars, lastCreate>>

\* The loop over the listed labels, positioned at the next label; after the
\* last one the operation returns and the route answers with the list.
NextListed(q, rest) ==
    IF rest # <<>>
    THEN [q EXCEPT !.pc = "syncLabel", !.items = rest]
    ELSE Finish(q, <<"success">>)

\* gmail.users.labels.list returns the labels of the mailbox of the owner of
\* the access token sent with the call, or throws to withTokenRefresh.
ListLabelsReturn(r) ==
    LET q == req[r] IN
    /\ q.pc = "listLabels"
    /\ IF q.callTok \notin live
       THEN req' = [req EXCEPT ![r] =
                      withTokenRefreshCatch([q EXCEPT !.err = "invalid_token"])]
       ELSE \/ req' = [req EXCEPT ![r] =
                         withTokenRefreshCatch([q EXCEPT !.err = "providerError"])]
            \/ req' = [req EXCEPT ![r] =
                         NextListed(q, ListedLabels(
                            {g \in gmailLabels : g.owner = minted[q.callTok]}))]
    /\ UNCHANGED <<batchLogs, users, session, oauthCreds, minted, live,
                   mailbox, emails>>
    /\ UNCHANGED <<rateVars, cls, labelVars, lastCreate>>

\* saveLabel({userId, name: label.name, gmailLabelId: label.id, ..}) for one
\* listed label, under the user of the request.
SyncLabel(r) ==
    LET q == req[r] IN
    /\ q.pc = "syncLabel"
    /\ labels' = saveLabel(labels, [userId |-> q.user,
                                    name |-> Head(q.items).name,
                                    gmailLabelId |-> Head(q.items).id])
    /\ req' = [req EXCEPT ![r] = NextListed(q, Tail(q.items))]
    /\ UNCHANGED <<batchLogs, users, session, oauthCreds, minted, live,
                   mailbox, emails, gmailLabels>>
    /\ UNCHANGED <<rateVars, cls, lastCreate>>

\* withTokenRefresh after the refresh, in the label listing: updateUserTokens,
\* req.user.accessToken = new token, setCredentials(new tokens), and the
\* operation is called again: labels.list is issued with the new token.
SaveTokensLabels(r) ==
    LET q == req[r]
        tokens == [accessToken |-> q.refreshed,
                   refreshToken |-> session[q.user].refreshToken] IN
    /\ q.pc = "saveTokens"
    /\ q.operation = "listLabels"
    /\ users' = updateUserTokens(users, q.user, tokens)
    /\ session' = [session EXCEPT ![q.user].accessToken = q.refreshed]
    /\ oauthCreds' = setCredentials(q.refreshed, session[q.user].refreshToken)
    /\ req' = [req EXCEPT ![r] =
                 [q EXCEPT !.pc = "listLabels", !.attempt = 2,
                           !.opCalls = @ + 1, !.err = "none",
                           !.callTok = q.refreshed]]
    /\ UNCHANGED <<batchLogs, minted, live, mailbox, emails>>
    /\ UNCHANGED <<rateVars, cls, labelVars, lastCreate>>

----------------------------------------------------------------------------
(* batchAssignLabels *)

AssignDefaultSize == 50   \* options.batchSize || 50

\* batchAssignLabels: const batchSize = options.batchSize || 50;
\* fullBatchProcess passes its own batchSize = options.batchSize || 100.
assignBatchSize(q) ==
    CASE q.operation = "fullProcess" -> fetchBatchSize(q)
      [] q.batchSize = 0             -> AssignDefaultSize
      [] OTHER                       -> q.batchSize

\* Variant of unsyncedEmails: the selection keeps the synced emails.
unsyncedEmailsNoFilter(found) == found

\* emails.filter(email => !email.synced)
unsyncedEmails(found) == SelectSeq(found, LAMBDA e : ~e.synced)

\* The result of batchAssignLabels.
AssignResult(q) ==
    [emailsProcessed |-> q.successful,
     emailsTotal     |-> q.selected,
     operation       |-> "assignLabels",
     errors          |-> IF q.failed > 0 THEN <<"emails failed labeling">>
                         ELSE <<>>]

\* The emails at the head of the list that have no suggested label go
\* through the loop body without a call.
RECURSIVE SkipUnlabelled(_)
SkipUnlabelled(items) ==
    IF items # <<>> /\ Head(items).suggestedLabel = <<>>
    THEN SkipUnlabelled(Tail(items))
    ELSE items

\* The loop over unsyncedEmails, positioned at the next email with a
\* suggested label.
NextAssign(q, rest) ==
    IF SkipUnlabelled(rest) # <<>>
    THEN [q EXCEPT !.pc = "assignLabel", !.items = SkipUnlabelled(rest)]
    ELSE [q EXCEPT !.pc = "complete", !.items = <<>>,
                   !.result = AssignResult(q)]

\* getEmails(userId, {processed: true, limit: batchSize}) returns and the
\* synced emails are filtered out of the list.
GetAssignable(r) ==
    LET q   == req[r]
        sel == unsyncedEmails(getEmails(emails, q.owner, TRUE,
                                        assignBatchSize(q))) IN
    /\ q.pc = "getAssignable"
    /\ req' = [req EXCEPT ![r] =
          IF sel = <<>>
          THEN [q EXCEPT !.pc = "complete",
                         !.result = [emailsProcessed |-> 0, emailsTotal |-> 0,
                                     operation |-> "assignLabels"]]
          ELSE NextAssign([q EXCEPT !.selected = Len(sel)], sel)]
    /\ UNCHANGED <<batchLogs, users, session, oauthCreds, minted, live,
                   mailbox, emails>>
    /\ UNCHANGED <<rateVars, cls, labelVars, lastCreate>>

\* getLabelByName(userId, email.analysis.suggestedLabel) returns: with a
\* label messages.modify is issued with the credentials installed at that
\* moment, without one failCount is incremented.
AssignLabel(r) ==
    LET q     == req[r]
        found == getLabelByName(labels, q.owner, Head(q.items).suggestedLabel)
    IN
    /\ q.pc = "assignLabel"
    /\ req' = [req EXCEPT ![r] =
          IF found # {}
          THEN [q EXCEPT !.pc = "modify", !.modifies = @ + 1,
                         !.labelId = (CHOOSE l \in found : TRUE).gmailLabelId,
                         !.callTok = oauthCreds.access_token]
          ELSE NextAssign([q EXCEPT !.failed = @ + 1], Tail(q.items))]
    /\ UNCHANGED <<batchLogs, users, session, oauthCreds, minted, live,
                   mailbox, emails>>
    /\ UNCHANGED <<rateVars, cls, labelVars, lastCreate>>

\* gmail.users.messages.modify returns, or throws (access token not
\* accepted, or any other error if mayFail) and the catch of the loop
\* increments failCount.
ModifyReturn(r, mayFail) ==
    LET q == req[r] IN
    /\ q.pc = "modify"
    /\ \/ /\ mayFail \/ q.callTok \notin live
          /\ req' = [req EXCEPT ![r] =
                       NextAssign([q EXCEPT !.failed = @ + 1], Tail(q.items))]
       \/ /\ q.callTok \in live
          /\ req' = [req EXCEPT ![r] = [q EXCEPT !.pc = "markSynced"]]
    /\ UNCHANGED <<batchLogs, users, session, oauthCreds, minted, live,
                   mailbox, emails>>
    /\ UNCHANGED <<rateVars, cls, labelVars, lastCreate>>

\* updateOne({gmailId}, {$set: {synced: true}}) applied to the document d it
\* matches.
markSynced(coll, d) == (coll \ {d}) \cup {[d EXCEPT !.synced = TRUE]}

\* The updateOne returns and successCount is incremented; then the next
\* email.
MarkSynced(r) ==
    LET q       == req[r]
        matches == {e \in emails : e.gmailId = Head(q.items).gmailId} IN
    /\ q.pc = "markSynced"
    /\ \/ /\ matches = {}
          /\ UNCHANGED emails
       \/ \E d \in matches : emails' = markSynced(emails, d)
    /\ req' = [req EXCEPT ![r] =
                 NextAssign([q EXCEPT !.successful = @ + 1], Tail(q.items))]
    /\ UNCHANGED <<batchLogs, users, session, oauthCreds, minted, live,
                   mailbox>>
    /\ UNCHANGED <<rateVars, cls, labelVars, lastCreate>>

----------------------------------------------------------------------------
(* fullBatchProcess *)

\* {...a, ...b}
Spread(a, b) ==
    [f \in DOMAIN a \cup DOMAIN b |-> IF f \in DOMAIN b THEN b[f] ELSE a[f]]

\* Variant of StepAfter: the labels are created before the analysis.
StepAfterLabelsFirst(step) ==
    CASE step = "fetchEmails"   -> "createLabels"
      [] step = "createLabels"  -> "analyzeEmails"
      [] step = "analyzeEmails" -> "assignLabels"
      [] OTHER                  -> "fullProcess"

\* The step fullBatchProcess calls after a step has returned; after the last
\* one it builds finalResult.
StepAfter(step) ==
    CASE step = "fetchEmails"   -> "analyzeEmails"
      [] step = "analyzeEmails" -> "createLabels"
      [] step = "createLabels"  -> "assignLabels"
      [] OTHER                  -> "fullProcess"

\* The call of a step: it runs up to its first await, the getEmails call.
StepStart(q, step) ==
    [q EXCEPT !.pc = CASE step = "analyzeEmails" -> "getUnprocessed"
                       [] step = "createLabels"  -> "getProcessed"
                       [] OTHER                  -> "getAssignable",
              !.items = <<>>, !.names = <<>>, !.selected = 0,
              !.successful = 0, !.failed = 0,
              !.labelsCreated = 0, !.existingLabels = 0]

\* A step returns to fullBatchProcess: the next step is called with the
\* result kept, or finalResult is returned to executeBatch.
FullProcessStep(r) ==
    LET q      == req[r]
        merged == IF q.result.operation = "fetchEmails" THEN q.result
                  ELSE Spread(q.merged, q.result) IN
    /\ q.pc = "complete"
    /\ StepReturned(q)
    /\ req' = [req EXCEPT ![r] =
          IF StepAfter(q.result.operation) = "fullProcess"
          THEN [q EXCEPT !.result = [merged EXCEPT !.operation = "fullProcess"],
                         !.merged = merged]
          ELSE StepStart([q EXCEPT !.merged = merged],
                         StepAfter(q.result.operation))]
    /\ UNCHANGED <<batchLogs, users, session, oauthCreds, minted, live,
                   mailbox, emails>>
    /\ UNCHANGED <<rateVars, cls, labelVars, lastCreate>>

\* The getEmails call at the start of a step throws (store error): the
\* step, fullBatchProcess and executeBatch are left through their catch
\* blocks.
GetEmailsThrows(r) ==
    LET q == req[r] IN
    /\ q.pc \in {"getUnprocessed", "getProcessed", "getAssignable"}
    /\ req' = [req EXCEPT ![r] = [q EXCEPT !.pc = "failWrite",
                                           !.err = "storeError"]]
    /\ UNCHANGED <<batchLogs, users, session, oauthCreds, minted, live,
                   mailbox, emails>>
    /\ UNCHANGED <<rateVars, cls, labelVars, lastCreate>>

----------------------------------------------------------------------------
(* Inputs of the classification *)

KeywordLists == {"financial", "investment", "work", "personal", "shopping",
                 "positive", "negative"}

SubjectInputs == {k \in SUBSET KeywordLists : Cardinality(k) <= MaxKeywords}

\* The subject and the snippet of an email: any subject with a snippet that
\* matches no list, and snippets with a financial keyword.
EmailInputs ==
    {<<subject, {}>> : subject \in SubjectInputs}
    \cup {<<subject, {"financial"}>> : subject \in {{}, {"investment"}}}

LabelAlphabet == {"a", " ", "\t", "/", "!"}

Strings(n) == UNION {[1..k -> LabelAlphabet] : k \in 0..n}

Repeat(c, k) == [i \in 1..k |-> c]

\* Short strings, and strings around the length cap: a run of letters with
\* at most one other character before and after it.
LabelInputs ==
    Strings(MaxCore) \cup
    {pre \o Repeat("a", k) \o post :
        pre \in {<<>>, <<" ">>, <<"!">>}, post \in {<<>>, <<"7">>, <<"\t">>},
        k \in {MaxLabelLen - 1, MaxLabelLen, MaxLabelLen + 1}}

Analysis(category, sentiment, label) ==
    [kind |-> "json",
     analysis |-> [category |-> category, sentiment |-> sentiment,
                   suggestedLabel |-> label]]

GeminiResponses ==
    {[kind |-> "error", analysis |-> NoAnalysis]}
    \cup {Analysis("Work", "positive", StrVal(l)) : l \in LabelInputs}
    \cup {Analysis("Work", "positive", f) : f \in {Undefined, NonString}}
    \cup {Analysis(c, t, StrVal(<<"a">>)) :
            c \in {"Finance/Billing", "Spam", "undefined"},
            t \in {"negative", "angry", "undefined"}}

----------------------------------------------------------------------------
(* Specification of the batch lifecycle: user u1 creates and executes batch *)
(* jobs through concurrent requests while access tokens expire.            *)

LifecycleInputs == {<<"fetchEmails", 1>>, <<"fetchEmails", 2>>,
                    <<"organizeLabels", 0>>, <<"archiveEmails", 0>>}

InitBatch ==
    /\ batchLogs = [b \in BatchIds \cup {UnknownBatchId} |-> NoJob]
    /\ users = [u \in Users |-> [accessToken  |-> IF u = "u1" THEN 1 ELSE 2,
                                 refreshToken |-> u]]
    /\ session = users
    /\ oauthCreds = setCredentials(NoTok, "u1")
    /\ minted = <<"u1", "u2">>
    /\ live = {1, 2}
    /\ mailbox = [u \in Users |-> MaxMailbox]
    /\ emails = {}
    /\ req = [r \in Reqs |-> IdleReq]
    /\ labels = {}
    /\ gmailLabels = {}
    /\ lastCreate = NoCreate

InitRate ==
    /\ rateLimits = EmptyBag
    /\ grants = EmptyBag
    /\ now = 0
    /\ rl = [p \in Callers |-> IdleCall]
    /\ rlCalls = 0
    /\ storeFailures = 0

Init == InitBatch /\ InitRate /\ cls = IdleCls(TRUE)

Next ==
    \/ \E in \in LifecycleInputs : CreateBatchRoute("u1", in[1], in[2])
    \/ \E r \in Reqs, b \in Jobs \cup {UnknownBatchId} : ExecuteRoute(r, "u1", b)
    \/ \E r \in Reqs : FindOne(r)
    \/ \E r \in Reqs : MarkRunning(r)
    \/ \E r \in Reqs : ListReturn(r)
    \/ \E r \in Reqs : GetReturn(r, TRUE)
    \/ \E r \in Reqs : SaveEmail(r)
    \/ \E r \in Reqs : Progress(r)
    \/ \E r \in Reqs : Organize(r)
    \/ \E r \in Reqs : Complete(r)
    \/ \E r \in Reqs : FailWrite(r)
    \/ \E r \in Reqs : Refresh(r)
    \/ \E r \in Reqs : SaveTokens(r)
    \/ \E t \in 1..MaxTokens : t \in live /\ minted[t] = "u1" /\ ExpireToken(t)

Spec == Init /\ [][Next]_vars


----------------------------------------------------------------------------
(* Properties of the batch lifecycle and of the credential guard *)

JobStatuses == {"created", "running", "completed", "failed"}

\* C1: a job whose status is completed or failed never changes status again
\* (no step, of a second execute or of the retry after a token refresh, takes
\* a job out of a terminal state).
C1_TerminalFinal ==
    [][\A b \in BatchIds :
          batchLogs[b].status \in Terminal =>
              batchLogs'[b].status = batchLogs[b].status]_vars

\* C2: every job's status is one of created, running, completed, failed; a
\* job just created has status created and no request is executing it; a job
\* enters completed or failed only from running.
C2_StatusDomain ==
    /\ [](\A b \in Jobs : batchLogs[b].status \in JobStatuses)
    /\ [][\A b \in BatchIds :
            /\ (batchLogs[b] = NoJob /\ batchLogs'[b] # NoJob) =>
                  /\ batchLogs'[b].status = "created"
                  /\ \A r \in Reqs : req'[r].batchId = b =>
                                        req'[r].wrote = "none"
            /\ (batchLogs'[b].status \in Terminal
                  /\ batchLogs[b].status # batchLogs'[b].status) =>
                  batchLogs[b].status = "running"]_vars

\* The request in slot r has been answered after a successful token refresh.
RefreshedAndDone(r) ==
    /\ req[r].pc = "done"
    /\ req[r].refreshed # NoTok

\* C3: when the operation failed with an authorization error and the refresh
\* succeeded, the request ends with the success response only, the job is
\* completed, and the stored credential of the user is the refreshed token
\* (as long as the provider still accepts that token and the retry met no
\* other provider failure).
C3_RefreshThenSuccess ==
    \A r \in Reqs :
        (/\ RefreshedAndDone(r)
         /\ req[r].refreshed \in live
         /\ req[r].err \in {"none", "invalid_token"}
         /\ \A r2 \in Reqs \ {r} : req[r2].pc = "idle")
        => /\ req[r].resCalls = <<"success">>
           /\ batchLogs[req[r].batchId].status = "completed"
           /\ users[req[r].user].accessToken = req[r].refreshed

\* The refresh failed, or the retry failed again with an authorization error.
ReauthCase(r) ==
    /\ req[r].pc = "done"
    /\ req[r].refreshes > 0
    /\ \/ req[r].refreshed = NoTok
       \/ req[r].attempt = 2 /\ IsTokenError(req[r].err)

\* C4: when the refresh failed, or the retry failed with an authorization
\* error, the first response written to the caller is requiresReauth, the
\* operation was called at most twice and refreshed at most once, and the
\* last status this request wrote to the job is failed; when no other request
\* has run, failed is the status on the job record.
C4_ReauthOnRefreshFailure ==
    \A r \in Reqs :
        ReauthCase(r) =>
            /\ Head(req[r].resCalls) = "requiresReauth"
            /\ req[r].opCalls <= 2
            /\ req[r].refreshes = 1
            /\ req[r].wrote = "failed"
            /\ batchLogs[req[r].batchId] # NoJob
            /\ (\A r2 \in Reqs \ {r} : req[r2].pc = "idle") =>
                   batchLogs[req[r].batchId].status = "failed"

C4_Witness ==
    \E r \in Reqs :
        /\ ReauthCase(r)
        /\ req[r].attempt = 2
        /\ batchLogs[req[r].batchId].status = "failed"

\* C5: in every invocation of the credential guard at most one refresh is
\* attempted and the operation is called at most twice, the second call only
\* after a refresh.
C5_BoundedRetry ==
    \A r \in Reqs :
        /\ req[r].refreshes <= 1
        /\ req[r].opCalls <= 2
        /\ req[r].opCalls = 2 => req[r].refreshes = 1

C5_Witness ==
    \E r \in Reqs :
        /\ req[r].pc = "done"
        /\ req[r].opCalls = 2
        /\ req[r].refreshes = 1

----------------------------------------------------------------------------
(* Specifications of the rate limiter and of the classification *)

\* k documents of a user recorded at time 0.
DocsAtZero(userId, k) ==
    IF k = 0 THEN EmptyBag
    ELSE [d \in {RateDoc(RateKey(userId, "gemini"), 0)} |-> k]

\* The state at time 0 after k1 granted calls for u1 and k2 for u2.
InitRateAfter(k1, k2) ==
    /\ rateLimits = DocsAtZero("u1", k1) (+) DocsAtZero("u2", k2)
    /\ grants = rateLimits
    /\ now = 0
    /\ rl = [p \in Callers |-> IdleCall]
    /\ rlCalls = 0
    /\ storeFailures = 0

\* One caller at a time for the key of u1, from an empty window, while the
\* window of u2 is empty or full.
InitRateSeq ==
    /\ InitBatch
    /\ cls = IdleCls(TRUE)
    /\ \E k2 \in {0, RateLimit} : InitRateAfter(0, k2)

NextRate ==
    \/ CheckRateLimit(1, "u1", "gemini")
    \/ CountDocuments(1)
    \/ InsertOne(1)
    \/ Tick
    \/ TtlExpire

SpecRate == InitRateSeq /\ [][NextRate]_vars

\* Two callers at once for the key of u1, one call below the ceiling.
InitRateConc ==
    /\ InitBatch
    /\ cls = IdleCls(TRUE)
    /\ InitRateAfter(RateLimit - 1, 0)

NextRateConc ==
    \/ \E p \in Callers : rlCalls < MaxConcCalls
                          /\ CheckRateLimit(p, "u1", "gemini")
    \/ \E p \in Callers : CountDocuments(p)
    \/ \E p \in Callers : InsertOne(p)
    \/ Tick
    \/ TtlExpire

SpecRateConc == InitRateConc /\ [][NextRateConc]_vars

\* Classifications one after another, with the AI backend enabled or
\* disabled by configuration, the window of the user empty or full.
InitClassify ==
    /\ InitBatch
    /\ cls \in {IdleCls(flag) : flag \in BOOLEAN}
    /\ \E k1 \in {0, RateLimit} : InitRateAfter(k1, 0)

NextClassify ==
    \/ \E email \in EmailInputs :
           AnalyzeEmail(1, email[1], email[2], "u1")
    \/ CountDocuments(1)
    \/ InsertOne(1)
    \/ \E response \in GeminiResponses : GeminiReturn(response)

SpecClassify == InitClassify /\ [][NextClassify]_vars

----------------------------------------------------------------------------
(* Properties of the rate limiter *)

\* The documents of a key ever recorded with a timestamp the query of call c
\* matches (timestamp >= windowStart), the document of c itself included.
InWindow(c) ==
    LET Match(d) == d.key = c.key /\ d.timestamp >= c.windowStart
    IN BagCardinality(BagFilter(grants, Match))

\* Those of them the TTL index cannot have deleted when c counted.
InWindowKept(c) ==
    LET Match(d) == /\ d.key = c.key
                    /\ d.timestamp >= c.windowStart
                    /\ d.expiresAt > c.at
    IN BagCardinality(BagFilter(grants, Match))

\* The number of documents call c has recorded.
Recorded(c) == BagCardinality(grants) - c.before

\* C7: a finished call of checkRateLimit whose store operations succeeded
\* returns true and records exactly one document when fewer than RateLimit
\* documents of its key were recorded inside its window before it (so the
\* first RateLimit sequential calls of a window, and a call made after the
\* recorded documents have left the window, are allowed); it returns false
\* and records nothing when RateLimit documents of its key inside the window
\* are still stored (the call after the RateLimit-th of a window is denied).
C7_CeilingPerWindow ==
    LET c == rl[1] IN
    (c.pc = "done" /\ ~c.failed) =>
        /\ c.result \in {"true", "false"}
        /\ c.result = "true"  => Recorded(c) = 1
        /\ c.result = "false" => Recorded(c) = 0
        /\ InWindow(c) - Recorded(c) < RateLimit => c.result = "true"
        /\ InWindowKept(c) - Recorded(c) >= RateLimit => c.result = "false"

\* C7 witness: with no store failure, RateLimit + 2 calls have been made for
\* the key of u1; RateLimit + 1 of them recorded a document, so one was
\* denied; the last one was allowed when every earlier document had left its
\* window.
C7_Witness ==
    LET c == rl[1]
        Mine(d) == d.key = RateKey("u1", "gemini")
    IN /\ c.pc = "done" /\ ~c.failed /\ c.result = "true"
       /\ storeFailures = 0
       /\ rlCalls = RateLimit + 2
       /\ BagCardinality(BagFilter(grants, Mine)) = RateLimit + 1
       /\ InWindow(c) = 1

\* C8: for every key and every window of WindowMs milliseconds, at most
\* RateLimit documents are ever recorded with a timestamp inside the window,
\* whatever the interleaving of the concurrent calls.
C8_HardCap ==
    \A d \in BagToSet(grants) :
        LET Match(e) == /\ e.key = d.key
                        /\ e.timestamp >= d.timestamp
                        /\ e.timestamp < d.timestamp + WindowMs
        IN BagCardinality(BagFilter(grants, Match)) <= RateLimit

----------------------------------------------------------------------------
(* Properties of the classification *)

SpaceAndSlash == {" ", "/"}

\* C9: a classification that has returned has a category of the closed set,
\* a sentiment of {positive, negative, neutral}, and a suggested label that
\* is not empty, is at most MaxLabelLen characters long and holds only
\* letters, digits, spaces and '/'.
C9_WellFormedResult ==
    cls.pc = "done" =>
        /\ cls.out.category \in VALID_CATEGORIES
        /\ cls.out.sentiment \in Sentiments
        /\ cls.out.suggestedLabel # <<>>
        /\ Len(cls.out.suggestedLabel) <= MaxLabelLen
        /\ \A i \in 1..Len(cls.out.suggestedLabel) :
               cls.out.suggestedLabel[i] \in
                   Letters \cup Digits \cup SpaceAndSlash

\* C10: with the AI backend disabled by configuration a classification
\* neither calls checkRateLimit nor the AI backend, and records no document
\* in rateLimits; with it enabled the AI backend is called only after
\* checkRateLimit has returned true to this classification.
C10_FlagThenRateThenCall ==
    /\ ~cls.USE_GEMINI =>
          /\ ~cls.rateChecked
          /\ ~cls.geminiCalled
          /\ rlCalls = 0
          /\ cls.pc = "done" => cls.path # "gemini"
    /\ cls.geminiCalled => cls.rateChecked /\ cls.canProceed

----------------------------------------------------------------------------
(* Specification of job creation: requests of both users with every         *)
(* operation name and batch sizes around 1 and around the ceilings.         *)

\* The operation names the switch of executeBatch knows.
Operations == {"fetchEmails", "analyzeEmails", "createLabels", "assignLabels",
               "organizeLabels", "fullProcess"}

CreateOperations == Operations \cup {"archiveEmails"}

CreateSizes ==
    {-1, 0, 1, 2} \cup
    UNION {{maxBatchSizes(op) - 1, maxBatchSizes(op), maxBatchSizes(op) + 1} :
              op \in {o \in Operations : maxBatchSizes(o) # 0}}

NextCreate ==
    \E u \in Users, op \in CreateOperations, size \in CreateSizes :
        CreateBatchRoute(u, op, size)

SpecCreate == Init /\ [][NextCreate]_vars

\* The create request just answered created no job / created one job.
CreatedNothing ==
    /\ lastCreate.response = "400"
    /\ Cardinality(Jobs) = lastCreate.jobsBefore

CreatedOne ==
    /\ lastCreate.response = "success"
    /\ Cardinality(Jobs) = lastCreate.jobsBefore + 1
    /\ lastCreate.batchId \in Jobs
    /\ batchLogs[lastCreate.batchId].operation = lastCreate.operation
    /\ batchLogs[lastCreate.batchId].batchSize = lastCreate.batchSize
    /\ batchLogs[lastCreate.batchId].userId = lastCreate.user

CeilingOf ==
    [fetchEmails |-> 500, analyzeEmails |-> 200, assignLabels |-> 200,
     fullProcess |-> 200]

\* C17: a create request for fetchEmails, analyzeEmails, assignLabels or
\* fullProcess with a batchSize above the ceiling of the operation (500, 200,
\* 200, 200) is answered with a validation error and creates no job; with a
\* batchSize from 1 to the ceiling it succeeds and creates exactly one job.
C17_CeilingEnforced ==
    (lastCreate.response # "none" /\ lastCreate.operation \in DOMAIN CeilingOf)
    =>
        /\ lastCreate.batchSize > CeilingOf[lastCreate.operation]
              => CreatedNothing
        /\ lastCreate.batchSize \in 1..CeilingOf[lastCreate.operation]
              => CreatedOne

\* C17 witness: a fullProcess request one above its ceiling has been
\* rejected.
C17_Witness ==
    /\ lastCreate.operation = "fullProcess"
    /\ lastCreate.batchSize = CeilingOf["fullProcess"] + 1
    /\ lastCreate.response = "400"
    /\ Jobs = {}

\* C18: a create request with a batchSize below 1 (0 or negative) is
\* rejected and creates no job, whatever the operation name.
C18_BelowOneRejected ==
    (lastCreate.response # "none" /\ lastCreate.batchSize < 1)
    => CreatedNothing

\* C19: a create request with an operation name outside the six known
\* operations is rejected at creation and creates no job.
C19_UnknownOperationRejected ==
    (lastCreate.response # "none" /\ lastCreate.operation \notin Operations)
    => CreatedNothing

----------------------------------------------------------------------------
(* Execution of an unknown batch *)

\* C20: a request that executes a batchId with no job record finds no job,
\* fails with 'Batch not found' and is answered with an error; it issues no
\* call to the mail provider and no token refresh, and none of its steps
\* creates or changes a job record.
C20_NotFound ==
    /\ [](/\ batchLogs[UnknownBatchId] = NoJob
          /\ \A r \in Reqs :
               (req[r].pc # "idle" /\ req[r].batchId = UnknownBatchId) =>
                  /\ req[r].pc \in {"findOne", "failWrite", "done"}
                  /\ req[r].callTok = NoTok
                  /\ req[r].refreshes = 0
                  /\ req[r].opCalls = 1
                  /\ req[r].pc # "findOne" => req[r].err = "notFound"
                  /\ req[r].pc = "done" => req[r].resCalls = <<"error500">>)
    /\ [][\A r \in Reqs :
            (req'[r].batchId = UnknownBatchId /\ req'[r] # req[r])
               => batchLogs' = batchLogs]_vars

\* C20 witness: while a job exists, a request for the unknown batchId has
\* ended with 'Batch not found'.
C20_Witness ==
    /\ Jobs # {}
    /\ \E r \in Reqs : /\ req[r].pc = "done"
                       /\ req[r].batchId = UnknownBatchId
                       /\ req[r].err = "notFound"

----------------------------------------------------------------------------
(* Specification of fetchEmails: one request at a time, mailboxes and batch *)
(* sizes around the page limit of the listing, access tokens that stay     *)
(* valid and message fetches that succeed.                                 *)

FetchSizes     == {1, MaxMailbox, GmailPageLimit, GmailPageLimit + 1}
FetchMailboxes == {0, MaxMailbox, GmailPageLimit, GmailPageLimit + MaxMailbox}

InitFetch ==
    /\ batchLogs = [b \in BatchIds \cup {UnknownBatchId} |-> NoJob]
    /\ users = [u \in Users |-> [accessToken  |-> IF u = "u1" THEN 1 ELSE 2,
                                 refreshToken |-> u]]
    /\ session = users
    /\ oauthCreds = setCredentials(NoTok, "u1")
    /\ minted = <<"u1", "u2">>
    /\ live = {1, 2}
    /\ mailbox \in [Users -> FetchMailboxes]
    /\ mailbox["u2"] = 0
    /\ emails = {}
    /\ req = [r \in Reqs |-> IdleReq]
    /\ labels = {}
    /\ gmailLabels = {}
    /\ lastCreate = NoCreate
    /\ InitRate
    /\ cls = IdleCls(TRUE)

NextFetch ==
    \/ \E size \in FetchSizes : CreateBatchRoute("u1", "fetchEmails", size)
    \/ \E b \in Jobs : ExecuteRoute(1, "u1", b)
    \/ FindOne(1)
    \/ MarkRunning(1)
    \/ ListReturn(1)
    \/ GetReturn(1, FALSE)
    \/ SaveEmail(1)
    \/ Progress(1)
    \/ Complete(1)
    \/ FailWrite(1)

SpecFetch == InitFetch /\ [][NextFetch]_vars

\* C15: a fetchEmails job with batchSize B >= 1 never counts more than B
\* fetched messages, and once completed against a mailbox of M messages it
\* has emailsTotal = min(B, M) and exactly min(B, M) message records are
\* stored for its user.
C15_FetchExactly ==
    /\ \A r \in Reqs :
          (req[r].operation = "fetchEmails" /\ req[r].batchSize >= 1)
             => req[r].totalEmails <= req[r].batchSize
    /\ \A b \in Jobs :
          LET job == batchLogs[b] IN
          (/\ job.status = "completed"
           /\ job.operation = "fetchEmails"
           /\ job.batchSize >= 1)
          => /\ job.emailsTotal = Min(job.batchSize, mailbox[job.userId])
             /\ Cardinality({e \in emails : e.userId = job.userId})
                   = Min(job.batchSize, mailbox[job.userId])

----------------------------------------------------------------------------
(* Specifications of the steps after the fetch.  They start from stores     *)
(* that earlier runs have filled.                                           *)

\* The record of message i of u1 as batchFetchEmails saves it, and after an
\* analysis that suggested a label.
Fetched(i) == [gmailId |-> i, userId |-> "u1", processed |-> FALSE,
               synced |-> FALSE, suggestedLabel |-> <<>>]
Analyzed(i, label) == [Fetched(i) EXCEPT !.processed = TRUE,
                                         !.suggestedLabel = label]

\* The state of a server whose collections hold the given documents and
\* whose provider holds the given labels.
InitWith(emailDocs, labelDocs, providerLabels) ==
    /\ batchLogs = [b \in BatchIds \cup {UnknownBatchId} |-> NoJob]
    /\ users = [u \in Users |-> [accessToken  |-> IF u = "u1" THEN 1 ELSE 2,
                                 refreshToken |-> u]]
    /\ session = users
    /\ oauthCreds = setCredentials(NoTok, "u1")
    /\ minted = <<"u1", "u2">>
    /\ live = {1, 2}
    /\ mailbox = [u \in Users |-> MaxMailbox]
    /\ emails = emailDocs
    /\ req = [r \in Reqs |-> IdleReq]
    /\ labels = labelDocs
    /\ gmailLabels = providerLabels
    /\ lastCreate = NoCreate
    /\ InitRate
    /\ cls = IdleCls(TRUE)

\* The responses of the AI backend in these specifications.
PipelineResponses ==
    {[kind |-> "error", analysis |-> NoAnalysis],
     Analysis("Work", "positive", StrVal(<<"a">>)),
     Analysis("Other", "neutral", Undefined)}

\* analyzeEmails over the fetched messages of u1, one request.
InitAnalyze ==
    \E k \in 0..MaxMailbox : InitWith({Fetched(i) : i \in 1..k}, {}, {})

NextAnalyze ==
    \/ CreateBatchRoute("u1", "analyzeEmails", 0)
    \/ \E b \in Jobs : ExecuteRoute(1, "u1", b)
    \/ FindOne(1)
    \/ MarkRunning(1)
    \/ GetUnprocessed(1)
    \/ BatchAnalyzeCall(1)
    \/ CountDocuments(1)
    \/ InsertOne(1)
    \/ \E response \in PipelineResponses : GeminiReturn(response)
    \/ ClassifyReturn(1)
    \/ UpdateAnalysis(1, FALSE)
    \/ Complete(1)

SpecAnalyze == InitAnalyze /\ [][NextAnalyze]_vars

\* C16: an analyzeEmails job never fails because of the AI call; when it has
\* ended it is completed with emailsProcessed = emailsTotal = the number of
\* messages it selected, and every one of them is marked processed and has a
\* stored analysis with a suggested label.
C16_AnalysisNeverFails ==
    \A b \in Jobs :
        LET job == batchLogs[b] IN
        job.operation = "analyzeEmails" =>
            /\ job.status # "failed"
            /\ job.status = "completed" =>
                  /\ job.emailsTotal = Cardinality(emails)
                  /\ job.emailsProcessed = job.emailsTotal
                  /\ job.errors = <<>>
                  /\ \A e \in emails : /\ e.processed
                                       /\ e.suggestedLabel # <<>>

\* C16 witness: a completed job over MaxMailbox messages, one classified by
\* the AI backend and one by the rule engine after the AI call failed.
C16_Witness ==
    /\ \E b \in Jobs : /\ batchLogs[b].status = "completed"
                       /\ batchLogs[b].emailsProcessed = MaxMailbox
    /\ \E e \in emails : e.suggestedLabel = <<"a">>
    /\ \E e \in emails : e.suggestedLabel = Work
    /\ BagCardinality(grants) = MaxMailbox

----------------------------------------------------------------------------
(* Specifications of createLabels *)

\* No other request is in progress.
Alone(r) == \A r2 \in Reqs \ {r} : req[r2].pc \in {"idle", "done"}

LabelChoices == {Work, General}

\* The analyzed messages of u1, with every choice of suggested labels.
AnalyzedMailboxes ==
    {{Analyzed(i, f[i]) : i \in 1..MaxMailbox} :
        f \in [1..MaxMailbox -> LabelChoices]}

\* Successive createLabels runs of one job, with provider and store calls
\* that may fail, in a mailbox that may already hold a label named Work.
InitLabels ==
    \E docs \in AnalyzedMailboxes,
       g \in {{}, {[owner |-> "u1", name |-> Work, id |-> 1]}} :
        InitWith(docs, {}, g)

NextLabels ==
    \/ CreateBatchRoute("u1", "createLabels", 0)
    \/ \E r \in Reqs, b \in Jobs : Alone(r) /\ ExecuteRoute(r, "u1", b)
    \/ \E r \in Reqs : FindOne(r)
    \/ \E r \in Reqs : MarkRunning(r)
    \/ \E r \in Reqs : GetProcessed(r)
    \/ \E r \in Reqs : GetLabelByName(r)
    \/ \E r \in Reqs : CreateLabelReturn(r, TRUE)
    \/ \E r \in Reqs : SaveLabel(r, TRUE)
    \/ \E r \in Reqs : Complete(r)

SpecLabels == InitLabels /\ [][NextLabels]_vars

\* Two createLabels runs at once, every call succeeding.
InitLabelsConc == \E docs \in AnalyzedMailboxes : InitWith(docs, {}, {})

NextLabelsConc ==
    \/ CreateBatchRoute("u1", "createLabels", 0)
    \/ \E r \in Reqs, b \in Jobs : ExecuteRoute(r, "u1", b)
    \/ \E r \in Reqs : FindOne(r)
    \/ \E r \in Reqs : MarkRunning(r)
    \/ \E r \in Reqs : GetProcessed(r)
    \/ \E r \in Reqs : GetLabelByName(r)
    \/ \E r \in Reqs : CreateLabelReturn(r, FALSE)
    \/ \E r \in Reqs : SaveLabel(r, FALSE)
    \/ \E r \in Reqs : Complete(r)

SpecLabelsConc == InitLabelsConc /\ [][NextLabelsConc]_vars

\* At most one label record per (userId, name) and at most one label of the
\* provider per (mailbox, name).
OneLabelPerName ==
    /\ \A l1, l2 \in labels :
          (l1.userId = l2.userId /\ l1.name = l2.name) => l1 = l2
    /\ \A g1, g2 \in gmailLabels :
          (g1.owner = g2.owner /\ g1.name = g2.name) => g1 = g2

C12_ConcurrentResolve ==
    /\ OneLabelPerName
    /\ \A r \in Reqs :
          (req[r].pc = "complete" /\ req[r].result.operation = "createLabels")
          => /\ req[r].result.labelsUsed = req[r].selected
             /\ \A e \in emails :
                   (e.userId = req[r].owner /\ e.processed
                    /\ e.suggestedLabel # <<>>)
                   => getLabelByName(labels, e.userId, e.suggestedLabel) # {}

----------------------------------------------------------------------------
(* Specification of assignLabels run after run *)

\* The label record and the provider label of a name in the mailbox of u1.
LabelRecord(name, id) == [userId |-> "u1", name |-> name, gmailLabelId |-> id]
ProviderLabel(name, id) == [owner |-> "u1", name |-> name, id |-> id]

\* Analyzed messages of u1, with the label Work recorded and the label
\* General recorded or not.
InitAssign ==
    \E docs \in AnalyzedMailboxes, withGeneral \in BOOLEAN :
        InitWith(docs,
                 {LabelRecord(Work, 1)} \cup
                    (IF withGeneral THEN {LabelRecord(General, 2)} ELSE {}),
                 {ProviderLabel(Work, 1)} \cup
                    (IF withGeneral THEN {ProviderLabel(General, 2)} ELSE {}))

AssignSizes == {0, 1, MaxMailbox}

NextAssignRuns ==
    \/ \E size \in AssignSizes : CreateBatchRoute("u1", "assignLabels", size)
    \/ \E r \in Reqs, b \in Jobs : Alone(r) /\ ExecuteRoute(r, "u1", b)
    \/ \E r \in Reqs : FindOne(r)
    \/ \E r \in Reqs : MarkRunning(r)
    \/ \E r \in Reqs : GetAssignable(r)
    \/ \E r \in Reqs : AssignLabel(r)
    \/ \E r \in Reqs : ModifyReturn(r, TRUE)
    \/ \E r \in Reqs : MarkSynced(r)
    \/ \E r \in Reqs : Complete(r)

SpecAssign == InitAssign /\ [][NextAssignRuns]_vars

\* The job record says that the last run that ended synced every record it
\* selected, and selected some.
SyncedAllSelected(job) ==
    /\ job.emailsTotal > 0
    /\ job.emailsProcessed = job.emailsTotal

\* A request is in batchAssignLabels.
InAssign(q) ==
    \/ q.pc \in {"getAssignable", "assignLabel", "modify", "markSynced"}
    \/ q.pc = "complete" /\ q.result.operation = "assignLabels"

\* C14: an assignLabels run that follows a run which synced every record it
\* selected goes from the selection to its end without a messages.modify
\* call, with emailsProcessed = 0, and none of its steps changes a message
\* record.
C14_SecondRunNoOp ==
    /\ [](\A r \in Reqs :
            (InAssign(req[r]) /\ req[r].pc # "getAssignable"
             /\ SyncedAllSelected(batchLogs[req[r].batchId]))
            => /\ req[r].pc = "complete"
               /\ req[r].result.emailsProcessed = 0
               /\ req[r].modifies = 0)
    /\ [][\A r \in Reqs :
            (InAssign(req[r]) /\ req'[r] # req[r]
             /\ SyncedAllSelected(batchLogs[req[r].batchId]))
            => emails' = emails]_vars

\* C14 witness: the second run has ended its selection over MaxMailbox
\* synced records, after a first run that synced them all.
C14_Witness ==
    /\ req[1].pc = "done"
    /\ req[2].pc = "complete"
    /\ req[2].result.operation = "assignLabels"
    /\ req[2].result.emailsProcessed = 0
    /\ batchLogs[req[2].batchId].emailsProcessed = MaxMailbox
    /\ \A e \in emails : e.synced
    /\ Cardinality(emails) = MaxMailbox

----------------------------------------------------------------------------
(* Specification of concurrent fetchEmails, analyzeEmails and assignLabels *)

\* The jobs of u1 that earlier create requests have left, one per operation.
SyncOperations == <<"fetchEmails", "analyzeEmails", "assignLabels">>

\* Each message of the mailbox of u1 is fetched, or fetched and analyzed; the
\* label Work is recorded.  The other variables are as in InitWith.
InitSync ==
    /\ batchLogs = [b \in 1..Len(SyncOperations) |->
                       createBatch("u1", SyncOperations[b], 0)]
    /\ users = [u \in Users |-> [accessToken  |-> IF u = "u1" THEN 1 ELSE 2,
                                 refreshToken |-> u]]
    /\ session = users
    /\ oauthCreds = setCredentials(NoTok, "u1")
    /\ minted = <<"u1", "u2">>
    /\ live = {1, 2}
    /\ mailbox = [u \in Users |-> MaxMailbox]
    /\ \E analyzed \in SUBSET (1..MaxMailbox) :
          emails = {IF i \in analyzed THEN Analyzed(i, Work) ELSE Fetched(i) :
                       i \in 1..MaxMailbox}
    /\ req = [r \in Reqs |-> IdleReq]
    /\ labels = {LabelRecord(Work, 1)}
    /\ gmailLabels = {ProviderLabel(Work, 1)}
    /\ lastCreate = NoCreate
    /\ InitRate
    /\ cls = IdleCls(TRUE)

\* Two requests of u1 in flight together, each on any of the jobs.
NextSync ==
    \/ \E r \in Reqs, b \in DOMAIN batchLogs : ExecuteRoute(r, "u1", b)
    \/ \E r \in Reqs : FindOne(r)
    \/ \E r \in Reqs : MarkRunning(r)
    \/ \E r \in Reqs : ListReturn(r)
    \/ \E r \in Reqs : GetReturn(r, FALSE)
    \/ \E r \in Reqs : SaveEmail(r)
    \/ \E r \in Reqs : Progress(r)
    \/ \E r \in Reqs : GetUnprocessed(r)
    \/ \E r \in Reqs : BatchAnalyzeCall(r)
    \/ \E c \in Callers : CountDocuments(c)
    \/ \E c \in Callers : InsertOne(c)
    \/ \E response \in PipelineResponses : GeminiReturn(response)
    \/ \E r \in Reqs : ClassifyReturn(r)
    \/ \E r \in Reqs : UpdateAnalysis(r, FALSE)
    \/ \E r \in Reqs : GetAssignable(r)
    \/ \E r \in Reqs : AssignLabel(r)
    \/ \E r \in Reqs : ModifyReturn(r, FALSE)
    \/ \E r \in Reqs : MarkSynced(r)
    \/ \E r \in Reqs : Complete(r)
    \/ \E r \in Reqs : FailWrite(r)

SpecSync == InitSync /\ [][NextSync]_vars

\* C13: every message record with synced = true has processed = true.
C13_SyncedImpliesProcessed ==
    \A e \in emails : e.synced => e.processed

----------------------------------------------------------------------------
(* Properties of the credential guard and of overlapping executions, in the *)
(* specification of the batch lifecycle                                     *)

\* The calls a request has in progress at the mail provider.
ProviderCallPcs == {"list", "get", "createLabel", "modify"}

\* The request is inside the sub-procedure of its job: executeBatch has
\* written running and has not yet reached its completion or failure write.
InSubProcedure(q) ==
    q.pc \in {"list", "get", "save", "progress", "organize",
              "getUnprocessed", "classify", "updateAnalysis",
              "getProcessed", "getLabel", "createLabel", "saveLabel",
              "getAssignable", "assignLabel", "modify", "markSynced"}

\* C26: at no time are two requests inside the sub-procedure of the same
\* batchId.
C26_SingleWriter ==
    \A r1, r2 \in Reqs :
        (r1 # r2 /\ InSubProcedure(req[r1]) /\ InSubProcedure(req[r2]))
        => req[r1].batchId # req[r2].batchId

\* C27: from the successful refresh until the retried call has ended, the
\* access token installed on the provider client is the refreshed one.
C27_RetryUsesRefreshed ==
    \A r \in Reqs :
        (req[r].attempt = 2 /\ req[r].pc \notin {"idle", "done"})
        => oauthCreds.access_token = req[r].refreshed

\* The first call of the operation has failed with an error that is not an
\* authorization error, and the request has been answered.
NonAuthFirstFailure(q) ==
    /\ q.pc = "done"
    /\ q.attempt = 1
    /\ q.err \notin {"none", "invalid_token"}

\* C28: a request whose first call failed with a non-authorization error
\* has refreshed nothing, has called the operation once and was answered
\* with the error alone; and the stored credentials change only in the
\* refresh of a request whose call failed with an authorization error.
C28_NonAuthPropagates ==
    /\ [](\A r \in Reqs :
            NonAuthFirstFailure(req[r]) =>
                /\ req[r].refreshes = 0
                /\ req[r].refreshed = NoTok
                /\ req[r].opCalls = 1
                /\ req[r].resCalls = <<"error500">>)
    /\ [][users' # users =>
            \E r \in Reqs : /\ req[r].pc = "saveTokens"
                            /\ req[r].err = "invalid_token"
                            /\ req'[r] # req[r]]_vars

\* C28 witness: a request has ended on a provider error of its first call
\* while the stored token of its user is the one issued at login.
C28_Witness ==
    \E r \in Reqs :
        /\ NonAuthFirstFailure(req[r])
        /\ req[r].err = "providerError"
        /\ users[req[r].user].accessToken = 1

\* C29: a request is answered requiresReauth only when its refresh failed
\* or its retry failed with an authorization error.
C29_ReauthOnlyForAuth ==
    \A r \in Reqs :
        (/\ req[r].pc = "done"
         /\ \E i \in 1..Len(req[r].resCalls) :
               req[r].resCalls[i] = "requiresReauth")
        => \/ req[r].refreshes = 1 /\ req[r].refreshed = NoTok
           \/ req[r].attempt = 2 /\ req[r].err = "invalid_token"

\* C30: when a per-item provider call (messages.get, labels.create,
\* messages.modify) returns for an access token the provider does not
\* accept, the operation fails with the authorization error, which reaches
\* the credential guard.
C30_ItemCallsGuarded ==
    [][\A r \in Reqs :
          (/\ req[r].pc \in {"get", "createLabel", "modify"}
           /\ req[r].callTok \notin live
           /\ req'[r] # req[r])
          => /\ req'[r].pc = "failWrite"
             /\ req'[r].err = "invalid_token"]_vars

----------------------------------------------------------------------------
(* Specification of the requests of two users *)

\* The jobs earlier create requests have left: a fetchEmails and an
\* assignLabels job of each user.
UserJobs == <<[userId |-> "u1", operation |-> "fetchEmails"],
              [userId |-> "u2", operation |-> "fetchEmails"],
              [userId |-> "u1", operation |-> "assignLabels"],
              [userId |-> "u2", operation |-> "assignLabels"]>>

\* Message 1 of each user is analyzed and the label Work of each user is
\* recorded.  The other variables are as in InitWith.
InitUsers ==
    /\ batchLogs = [b \in 1..Len(UserJobs) |->
                       createBatch(UserJobs[b].userId, UserJobs[b].operation, 0)]
    /\ users = [u \in Users |-> [accessToken  |-> IF u = "u1" THEN 1 ELSE 2,
                                 refreshToken |-> u]]
    /\ session = users
    /\ oauthCreds = setCredentials(NoTok, "u1")
    /\ minted = <<"u1", "u2">>
    /\ live = {1, 2}
    /\ mailbox = [u \in Users |-> MaxMailbox]
    /\ emails = {[Analyzed(1, Work) EXCEPT !.userId = u] : u \in Users}
    /\ req = [r \in Reqs |-> IdleReq]
    /\ labels = {[LabelRecord(Work, 1) EXCEPT !.userId = u] : u \in Users}
    /\ gmailLabels = {[ProviderLabel(Work, 1) EXCEPT !.owner = u] : u \in Users}
    /\ lastCreate = NoCreate
    /\ InitRate
    /\ cls = IdleCls(TRUE)

\* Two requests in flight together, each of any user on any job.
NextUsers ==
    \/ \E r \in Reqs, u \in Users, b \in DOMAIN batchLogs : ExecuteRoute(r, u, b)
    \/ \E r \in Reqs : FindOne(r)
    \/ \E r \in Reqs : MarkRunning(r)
    \/ \E r \in Reqs : ListReturn(r)
    \/ \E r \in Reqs : GetReturn(r, FALSE)
    \/ \E r \in Reqs : SaveEmail(r)
    \/ \E r \in Reqs : Progress(r)
    \/ \E r \in Reqs : GetAssignable(r)
    \/ \E r \in Reqs : AssignLabel(r)
    \/ \E r \in Reqs : ModifyReturn(r, FALSE)
    \/ \E r \in Reqs : MarkSynced(r)
    \/ \E r \in Reqs : Complete(r)
    \/ \E r \in Reqs : FailWrite(r)

SpecUsers == InitUsers /\ [][NextUsers]_vars

\* The request in slot r was made by the owner of the job it names.
OwnJob(r) == batchLogs[req[r].batchId].userId = req[r].user

\* C22: when every request executes a job of its own user, every provider
\* call in progress for a job was issued with an access token of the owner
\* of that job.
C22_OwnCredential ==
    (\A r \in Reqs : req[r].pc # "idle" => OwnJob(r))
    => \A r \in Reqs :
          req[r].pc \in ProviderCallPcs => minted[req[r].callTok] = req[r].owner

\* C23: a request made by a user other than the owner of the job never gets
\* past the lookup of the job: it writes nothing to the job record and does
\* not enter the sub-procedure.
C23_OwnerOnly ==
    \A r \in Reqs :
        (req[r].pc # "idle" /\ ~OwnJob(r))
        => /\ req[r].pc \in {"findOne", "failWrite", "done"}
           /\ req[r].wrote = "none"

----------------------------------------------------------------------------
(* Specifications of fullProcess: one execution of a job, and executions   *)
(* of one job one after the other                                          *)

FullSizes == {0, 1}

\* An empty emails collection; the mailbox of u1 holds no label or already
\* a label named Work.
InitFull ==
    \E g \in {{}, {ProviderLabel(Work, 1)}} : InitWith({}, {}, g)

\* The steps of the requests in progress.
FullSteps ==
    \/ \E r \in Reqs : FindOne(r)
    \/ \E r \in Reqs : MarkRunning(r)
    \/ \E r \in Reqs : ListReturn(r)
    \/ \E r \in Reqs : GetReturn(r, FALSE)
    \/ \E r \in Reqs : SaveEmail(r)
    \/ \E r \in Reqs : Progress(r)
    \/ \E r \in Reqs : FullProcessStep(r)
    \/ \E r \in Reqs : GetEmailsThrows(r)
    \/ \E r \in Reqs : GetUnprocessed(r)
    \/ \E r \in Reqs : BatchAnalyzeCall(r)
    \/ \E c \in Callers : CountDocuments(c)
    \/ \E c \in Callers : InsertOne(c)
    \/ \E response \in PipelineResponses : GeminiReturn(response)
    \/ \E r \in Reqs : ClassifyReturn(r)
    \/ \E r \in Reqs : UpdateAnalysis(r, FALSE)
    \/ \E r \in Reqs : GetProcessed(r)
    \/ \E r \in Reqs : GetLabelByName(r)
    \/ \E r \in Reqs : CreateLabelReturn(r, FALSE)
    \/ \E r \in Reqs : SaveLabel(r, FALSE)
    \/ \E r \in Reqs : GetAssignable(r)
    \/ \E r \in Reqs : AssignLabel(r)
    \/ \E r \in Reqs : ModifyReturn(r, TRUE)
    \/ \E r \in Reqs : MarkSynced(r)
    \/ \E r \in Reqs : Complete(r)
    \/ \E r \in Reqs : FailWrite(r)

NextFull ==
    \/ \E size \in FullSizes : CreateBatchRoute("u1", "fullProcess", size)
    \/ \E b \in Jobs : ExecuteRoute(1, "u1", b)
    \/ FullSteps

SpecFull == InitFull /\ [][NextFull]_vars

NextFullRuns ==
    \/ \E size \in FullSizes : CreateBatchRoute("u1", "fullProcess", size)
    \/ \E r \in Reqs, b \in Jobs : Alone(r) /\ ExecuteRoute(r, "u1", b)
    \/ FullSteps

SpecFullRuns == InitFull /\ [][NextFullRuns]_vars

\* The step of fullBatchProcess a request is in (1: fetchEmails, 2:
\* analyzeEmails, 3: createLabels, 4: assignLabels), 5 once finalResult is
\* built, 0 outside fullBatchProcess.
StepNumber(operation) ==
    CASE operation = "fetchEmails"   -> 1
      [] operation = "analyzeEmails" -> 2
      [] operation = "createLabels"  -> 3
      [] operation = "assignLabels"  -> 4
      [] operation = "fullProcess"   -> 5
      [] OTHER                       -> 0

StepIndex(q) ==
    CASE q.pc \in {"list", "get", "save", "progress"}                    -> 1
      [] q.pc \in {"getUnprocessed", "classify", "updateAnalysis"}       -> 2
      [] q.pc \in {"getProcessed", "getLabel", "createLabel", "saveLabel"} -> 3
      [] q.pc \in {"getAssignable", "assignLabel", "modify", "markSynced"} -> 4
      [] q.pc = "complete" -> StepNumber(q.result.operation)
      [] OTHER             -> 0

\* C21: a fullProcess execution goes through fetchEmails, analyzeEmails,
\* createLabels, assignLabels in that order, entering a step only from the
\* step before it; it builds its result only after assignLabels; once a step
\* has raised an error the execution only writes the job as failed with that
\* error, touches no message or label record and no provider label, and
\* ends.
C21_StepsInOrder ==
    [][\A r \in Reqs :
          (req[r].operation = "fullProcess" /\ req'[r] # req[r])
          => LET s  == StepIndex(req[r])
                 s2 == StepIndex(req'[r])
                 b  == req[r].batchId IN
             /\ s \in 1..4 =>
                   \/ s2 \in {s, s + 1}
                   \/ req'[r].pc = "failWrite"
             /\ (s = 0 /\ s2 # 0) => s2 = 1
             /\ s = 5 => req'[r].pc = "done"
             /\ req[r].pc = "failWrite" =>
                   /\ req'[r].pc \in {"done", "refresh"}
                   /\ batchLogs'[b].status = "failed"
                   /\ batchLogs'[b].errors = <<req[r].err>>
                   /\ emails' = emails
                   /\ labels' = labels
                   /\ gmailLabels' = gmailLabels]_vars

\* C21 witness: a fullProcess job has failed on the store error of a
\* getEmails call after the analysis step had processed a message; no
\* message is synced.
C21_Witness ==
    /\ \E b \in Jobs : /\ batchLogs[b].operation = "fullProcess"
                       /\ batchLogs[b].status = "failed"
                       /\ batchLogs[b].errors = <<"storeError">>
    /\ req[1].pc = "done"
    /\ \E e \in emails : e.processed
    /\ \A e \in emails : ~e.synced

\* C24: during the execution of a job no write to the job record lowers
\* emailsProcessed, emailsTotal, labelsCreated or labelsUsed.
C24_CountersMonotone ==
    [][\A b \in Jobs :
              /\ batchLogs'[b].emailsProcessed >= batchLogs[b].emailsProcessed
              /\ batchLogs'[b].emailsTotal >= batchLogs[b].emailsTotal
              /\ batchLogs'[b].labelsCreated >= batchLogs[b].labelsCreated
              /\ batchLogs'[b].labelsUsed >= batchLogs[b].labelsUsed]_vars

\* a is a subsequence of b
RECURSIVE IsSubsequence(_, _)
IsSubsequence(a, b) ==
    IF a = <<>> THEN TRUE
    ELSE IF b = <<>> THEN FALSE
    ELSE IF Head(a) = Head(b) THEN IsSubsequence(Tail(a), Tail(b))
    ELSE IsSubsequence(a, Tail(b))

\* C25: every write to a job record keeps the diagnostics already in its
\* errors list, in their order.
C25_ErrorsAppendOnly ==
    [][\A b \in Jobs :
          IsSubsequence(batchLogs[b].errors, batchLogs'[b].errors)]_vars

----------------------------------------------------------------------------
(* The rate limiter when its store fails *)

\* C31: a checkRateLimit call that met a failure of the rateLimits
\* collection (on countDocuments or on insertOne) returns true, and the
\* classification that made the call goes on to the AI backend instead of
\* taking the rate-limited path.
C31_FailOpen ==
    \A p \in Callers :
        (rl[p].pc = "done" /\ rl[p].failed)
        => /\ rl[p].result = "true"
           /\ (cls.pc \in {"gemini", "done"} /\ cls.caller = p)
              => /\ cls.canProceed
                 /\ cls.geminiCalled
                 /\ cls.path # "rateLimited"

\* C31 witness: with the window of the user full, the store failed during
\* the check and the classification has called the AI backend.
C31_Witness ==
    /\ rl[1].pc = "done"
    /\ rl[1].failed
    /\ countDocuments(rateLimits, rl[1].key, rl[1].windowStart) >= RateLimit
    /\ cls.pc = "done"
    /\ cls.caller = 1
    /\ cls.geminiCalled

----------------------------------------------------------------------------
(* Specification of createLabels and the label listing, two users *)

\* The jobs earlier create requests have left: a createLabels job of each
\* user.
LabelSyncJobs == <<[userId |-> "u1", operation |-> "createLabels"],
                   [userId |-> "u2", operation |-> "createLabels"]>>

\* Message 1 of each user is analyzed with the label Work.  Either no label
\* exists yet, or each user has the label Work in their mailbox and on
\* record, as earlier createLabels runs have left them.
InitLabelSync ==
    /\ batchLogs = [b \in 1..Len(LabelSyncJobs) |->
                       createBatch(LabelSyncJobs[b].userId,
                                   LabelSyncJobs[b].operation, 0)]
    /\ users = [u \in Users |-> [accessToken  |-> IF u = "u1" THEN 1 ELSE 2,
                                 refreshToken |-> u]]
    /\ session = users
    /\ oauthCreds = setCredentials(NoTok, "u1")
    /\ minted = <<"u1", "u2">>
    /\ live = {1, 2}
    /\ mailbox = [u \in Users |-> MaxMailbox]
    /\ emails = {[Analyzed(1, Work) EXCEPT !.userId = u] : u \in Users}
    /\ req = [r \in Reqs |-> IdleReq]
    /\ \E known \in BOOLEAN :
          /\ labels = IF known
                      THEN {LabelRecord(Work, 1),
                            [LabelRecord(Work, 2) EXCEPT !.userId = "u2"]}
                      ELSE {}
          /\ gmailLabels = IF known
                           THEN {ProviderLabel(Work, 1),
                                 [ProviderLabel(Work, 2) EXCEPT !.owner = "u2"]}
                           ELSE {}
    /\ lastCreate = NoCreate
    /\ InitRate
    /\ cls = IdleCls(TRUE)

\* Two requests in flight together, each an execution of a job or a label
\* listing, of any user; access tokens expire.
NextLabelSync ==
    \/ \E r \in Reqs, u \in Users, b \in DOMAIN batchLogs : ExecuteRoute(r, u, b)
    \/ \E r \in Reqs, u \in Users : LabelsRoute(r, u)
    \/ \E r \in Reqs : FindOne(r)
    \/ \E r \in Reqs : MarkRunning(r)
    \/ \E r \in Reqs : GetProcessed(r)
    \/ \E r \in Reqs : GetLabelByName(r)
    \/ \E r \in Reqs : CreateLabelReturn(r, FALSE)
    \/ \E r \in Reqs : SaveLabel(r, FALSE)
    \/ \E r \in Reqs : Complete(r)
    \/ \E r \in Reqs : ListLabelsReturn(r)
    \/ \E r \in Reqs : SyncLabel(r)
    \/ \E r \in Reqs : Refresh(r)
    \/ \E r \in Reqs : SaveTokensLabels(r)
    \/ \E t \in 1..MaxTokens : ExpireToken(t)

SpecLabelSync == InitLabelSync /\ [][NextLabelSync]_vars

\* C32: once a label record of a user and a name holds a provider label
\* identifier, no step (a later createLabels run, the label listing, a
\* concurrent resolution of the same name) leaves a record of that user and
\* name with a different identifier.
C32_ProviderIdImmutable ==
    [][\A l \in labels : \A l2 \in labels' :
          (l2.userId = l.userId /\ l2.name = l.name)
          => l2.gmailLabelId = l.gmailLabelId]_vars

----------------------------------------------------------------------------
(* The write that marks a job failed *)

\* C33: the step that writes a job failed changes only the status and the
\* error list of the record (endTime is not kept in the model): the counters
\* checkpointed before the failure keep their values.
C33_FailurePreservesCounters ==
    [][\A r \in Reqs :
          (req[r].pc = "failWrite" /\ req'[r].pc # "failWrite")
          => LET b == req[r].batchId IN
             /\ batchLogs'[b].status = "failed"
             /\ batchLogs'[b].errors = <<req[r].err>>
             /\ \A f \in DOMAIN batchLogs[b] \ {"status", "errors"} :
                   batchLogs'[b][f] = batchLogs[b][f]]_vars

\* A fullProcess job that failed in a later step, after the fetch step had
\* checkpointed the messages it saved.
C33_Witness ==
    /\ req[1].pc = "done" /\ req[1].wrote = "failed"
    /\ req[1].err = "storeError"
    /\ batchLogs[1].status = "failed"
    /\ batchLogs[1].emailsProcessed > 0

----------------------------------------------------------------------------
(* Item failures of a sub-batch *)

\* C34: a fetchEmails run whose page listed every message of the mailbox and
\* that saved fewer of them (the metadata fetch of the others failed)
\* completes the job with one entry in the errors list of the job for each
\* message it did not save.
C34_ItemFailuresRecorded ==
    [][\A r \in Reqs :
          LET q == req[r] IN
          (/\ q.pc = "complete" /\ req'[r].pc = "done"
           /\ q.operation = "fetchEmails"
           /\ fetchBatchSize(q) >= mailbox[q.owner]
           /\ q.totalEmails < mailbox[q.owner])
          => /\ batchLogs'[q.batchId].status = "completed"
             /\ Len(batchLogs'[q.batchId].errors)
                   >= mailbox[q.owner] - q.totalEmails]_vars

----------------------------------------------------------------------------
(* Specification of termination: every call of a request in progress        *)
(* returns.                                                                 *)

LiveInputs == {<<"fetchEmails", 1>>, <<"fetchEmails", MaxMailbox>>,
               <<"organizeLabels", 0>>, <<"archiveEmails", 0>>}

\* An earlier create request has left one job of u1.  The mailbox of u1 is
\* empty (the first page comes back empty) or holds MaxMailbox messages.
InitLive ==
    /\ \E in \in LiveInputs :
          batchLogs = [b \in BatchIds \cup {UnknownBatchId} |->
                         IF b = 1 THEN createBatch("u1", in[1], in[2])
                         ELSE NoJob]
    /\ users = [u \in Users |-> [accessToken  |-> IF u = "u1" THEN 1 ELSE 2,
                                 refreshToken |-> u]]
    /\ session = users
    /\ oauthCreds = setCredentials(NoTok, "u1")
    /\ minted = <<"u1", "u2">>
    /\ live = {1, 2}
    /\ mailbox \in [Users -> {0, MaxMailbox}]
    /\ mailbox["u2"] = 0
    /\ emails = {}
    /\ req = [r \in Reqs |-> IdleReq]
    /\ labels = {}
    /\ gmailLabels = {}
    /\ lastCreate = NoCreate
    /\ InitRate
    /\ cls = IdleCls(TRUE)

\* The next step of the request in slot r: the call it awaits returns.
ReqStep(r) ==
    \/ FindOne(r)
    \/ MarkRunning(r)
    \/ ListReturn(r)
    \/ GetReturn(r, TRUE)
    \/ SaveEmail(r)
    \/ Progress(r)
    \/ Organize(r)
    \/ Complete(r)
    \/ FailWrite(r)
    \/ Refresh(r)
    \/ SaveTokens(r)

NextLive ==
    \/ \E r \in Reqs, b \in Jobs \cup {UnknownBatchId} : ExecuteRoute(r, "u1", b)
    \/ \E r \in Reqs : ReqStep(r)
    \/ \E t \in 1..MaxTokens : t \in live /\ minted[t] = "u1" /\ ExpireToken(t)

\* Every awaited call returns: the step of a request in progress is taken.
SpecLive ==
    InitLive /\ [][NextLive]_vars /\ \A r \in Reqs : WF_vars(ReqStep(r))

\* C35: every execute request in progress eventually returns with its job,
\* if the job exists, in the status completed or failed.
C35_ExecuteTerminates ==
    \A r \in Reqs :
        (req[r].pc \notin {"idle", "done"})
        ~> (/\ req[r].pc = "done"
            /\ batchLogs[req[r].batchId] # NoJob
                  => batchLogs[req[r].batchId].status \in Terminal)

\* A fetchEmails run of batch size 1 over a mailbox of several messages that
\* completed without a message saved: it went through every page although
\* every metadata fetch failed.
C35_Witness ==
    /\ req[1].pc = "done" /\ req[1].wrote = "completed"
    /\ req[2].pc = "idle"
    /\ batchLogs[1].operation = "fetchEmails" /\ batchLogs[1].batchSize = 1
    /\ batchLogs[1].status = "completed"
    /\ batchLogs[1].emailsProcessed = 0
    /\ mailbox["u1"] > 1

----------------------------------------------------------------------------
(* Progress of assignLabels *)

\* The processed and unsynced records of a user whose suggested label has a
\* label record: the records an assignLabels run can sync.
Assignable(userId) ==
    {e \in emails : /\ e.userId = userId /\ e.processed /\ ~e.synced
                    /\ e.suggestedLabel # <<>>
                    /\ getLabelByName(labels, userId, e.suggestedLabel) # {}}

\* C36: an assignLabels run that runs alone and selects no record (it
\* returns with emailsTotal = 0 and changes nothing, as every later run
\* then does) leaves no processed and unsynced record whose label exists.
C36_AssignProgress ==
    \A r \in Reqs :
        LET q == req[r] IN
        (/\ q.pc = "complete" /\ q.operation = "assignLabels"
         /\ q.result.operation = "assignLabels"
         /\ q.result.emailsTotal = 0
         /\ Alone(r))
        => Assignable(q.owner) = {}

----------------------------------------------------------------------------
(* Specification of createLabels over many processed messages *)

\* The processed messages of u1: as many as getEmails returns by default,
\* with the label Work, and up to MaxMailbox more, with any labels.
ManyAnalyzed ==
    {{Analyzed(i, Work) : i \in 1..GetEmailsDefaultLimit} \cup
     {Analyzed(GetEmailsDefaultLimit + i, f[i]) : i \in 1..k} :
        f \in [1..MaxMailbox -> LabelChoices], k \in 0..MaxMailbox}

\* One createLabels job of u1; the label Work is recorded or no label is.
InitLabelsMany ==
    /\ \E docs \in ManyAnalyzed, known \in BOOLEAN :
          InitWith(docs,
                   IF known THEN {LabelRecord(Work, 1)} ELSE {},
                   IF known THEN {ProviderLabel(Work, 1)} ELSE {})

\* createLabels runs of u1, one after the other, every call succeeding.
NextLabelsMany ==
    \/ CreateBatchRoute("u1", "createLabels", 0)
    \/ \E r \in Reqs, b \in Jobs : Alone(r) /\ ExecuteRoute(r, "u1", b)
    \/ \E r \in Reqs : FindOne(r)
    \/ \E r \in Reqs : MarkRunning(r)
    \/ \E r \in Reqs : GetProcessed(r)
    \/ \E r \in Reqs : GetLabelByName(r)
    \/ \E r \in Reqs : CreateLabelReturn(r, FALSE)
    \/ \E r \in Reqs : SaveLabel(r, FALSE)
    \/ \E r \in Reqs : Complete(r)

SpecLabelsMany == InitLabelsMany /\ [][NextLabelsMany]_vars

\* The distinct suggested labels of the processed records of a user.
SuggestedLabels(userId) ==
    {e.suggestedLabel : e \in {d \in emails : /\ d.userId = userId
                                              /\ d.processed
                                              /\ d.suggestedLabel # <<>>}}

\* C37: when a createLabels run in which no call failed returns, every
\* suggested label of a processed record of the user has a label record, and
\* labelsUsed (labelsCreated plus the labels that existed) is the number of
\* distinct suggested labels.
C37_AllLabelsCovered ==
    \A r \in Reqs :
        LET q == req[r] IN
        (/\ q.pc = "complete" /\ q.operation = "createLabels"
         /\ q.result.operation = "createLabels")
        => /\ \A name \in SuggestedLabels(q.owner) :
                 getLabelByName(labels, q.owner, name) # {}
           /\ q.result.labelsUsed = Cardinality(SuggestedLabels(q.owner))

----------------------------------------------------------------------------
(* The message upsert and the progress of a record *)

\* C38: no step takes a processed message record back: after every step the
\* record of the same (gmailId, userId) is still processed and has the same
\* synced flag and the same suggested label.
C38_UpsertKeepsProgress ==
    [][\A e \in emails :
          e.processed
          => \E e2 \in emails' :
                /\ e2.gmailId = e.gmailId /\ e2.userId = e.userId
                /\ e2.processed
                /\ e.synced => e2.synced
                /\ e2.suggestedLabel = e.suggestedLabel]_vars

----------------------------------------------------------------------------
(* The records a run writes *)

\* C39: the step in which a run for the user of its job stores an analysis
\* or marks a message synced leaves every message record of another user as
\* it was.
C39_OwnRecordsOnly ==
    [][\A r \in Reqs :
          (req[r].pc \in {"updateAnalysis", "markSynced"} /\ req'[r] # req[r])
          => \A e \in emails : e.userId # req[r].owner => e \in emails']_vars

----------------------------------------------------------------------------
(* Specification of analyzeEmails with failing store writes *)

\* analyzeEmails over the fetched messages of u1, one request; the write of
\* an analysis may fail.
NextAnalyzeFail ==
    \/ CreateBatchRoute("u1", "analyzeEmails", 0)
    \/ \E b \in Jobs : ExecuteRoute(1, "u1", b)
    \/ FindOne(1)
    \/ MarkRunning(1)
    \/ GetUnprocessed(1)
    \/ BatchAnalyzeCall(1)
    \/ CountDocuments(1)
    \/ InsertOne(1)
    \/ \E response \in PipelineResponses : GeminiReturn(response)
    \/ ClassifyReturn(1)
    \/ UpdateAnalysis(1, TRUE)
    \/ Complete(1)

SpecAnalyzeFail == InitAnalyze /\ [][NextAnalyzeFail]_vars

\* C40: when the batch analysis of the emails a run selected has returned,
\* the entries counted successful and those counted failed are as many as
\* the emails, and the successful ones are as many as the records of the
\* user that are stored processed.
C40_OneEntryPerEmail ==
    \A r \in Reqs :
        LET q == req[r] IN
        (/\ q.pc = "complete" /\ q.operation = "analyzeEmails"
         /\ q.selected > 0)
        => /\ q.successful + q.failed = q.selected
           /\ q.successful =
                 Cardinality({e \in emails : e.userId = q.owner /\ e.processed})
====
